---- MODULE Spec2Model ----
(***************************************************************************)
(* Model of the light-field camera grid (src/src/lightField.js), of the    *)
(* renderer's count/spacing input handlers that drive it                   *)
(* (src/src/renderer.js) and of the OBJ face resolution of the parser      *)
(* (objParser.js).                                                         *)
(*                                                                         *)
(* Units: the text of a camera-count input is an integer number of halves  *)
(* ("2.5" is 5), so that parseFloat and parseInt differ as they do in the  *)
(* code.  Camera positions and spacings are not part of the state: no      *)
(* selection, color or index operation reads them.                         *)
(***************************************************************************)
EXTENDS Integers, Sequences, FiniteSets, TLC

(* ------------------------------ bounds -------------------------------- *)

\* largest camera count and largest row / column index used in direct calls
MaxCount == 3
\* rows / columns of the selection box options that get chosen
MaxSelect == 2
\* largest camera count of a direct initCameras call between handler runs
MaxDirect == 2
\* v, vt and vn lines of one parse
MaxV == 3
MaxVt == 1
MaxVn == 1
\* vertex tokens of a face line
MaxFaceVerts == 4
\* a face line is read while the first Geometry holds fewer triangles
MaxTriangles == 1
\* face lines that emit a triangle, and mtllib lines, of a whole parse
MaxFaces == 2
MaxLibs == 1
\* file uploads handled after the renderer's constructor
MaxUploads == 2
\* cameras per axis of the grids clicked into
MaxPicking == 2
\* calls of exportLightField
MaxExports == 2
\* mousedown events on the canvas
MaxClicks == 1
\* cameras of the grids exported where frames and the light's select are
\* followed too
MaxExportCameras == 2
\* cameras of a grid whose export starts while another is in progress
MaxConcurrentCameras == 8
\* files of an upload
MaxBatch == 2
\* triangles of a position array handed to #generateTangents
MaxTangentTriangles == 2

(* ------------------------- program constants -------------------------- *)

minCameras == 1
maxCameras == 16
\* constructor default: 8 cameras per axis
DefaultCamerasCount == 8
selectedColor == <<255, 0, 0, 255>>
\* lengths are kept in tenths: LightField.defaultPosition (-2, 2, 15), the
\* spacing 0.7 of the constructor, LightField.minCameraSpace 0.5
defaultPosition == <<-20, 20, 150>>
DefaultCameraSpace == 7
minCameraSpace == 5

\* the value of a destructured element that does not exist
Undefined == -1

NoThrow == "none"
TypeError == "TypeError"
InvalidCameraIndexException == "InvalidCameraIndexException"
InvalidCameraStateException == "InvalidCameraStateException"

(* --------------------------- text conversion -------------------------- *)

\* parseFloat of a numeric input text, in halves (twice the parsed number)
ParseFloatHalves(text) == text
\* parseInt of a numeric input text: the integer part
ParseInt(text) == text \div 2
\* Number.prototype.toString of an integer, as an input text
NumberToString(n) == 2 * n

(* ------------------------------- state -------------------------------- *)

VARIABLES
    cameraArray,              \* LightField.#cameraArray: rows of cameras
    horizontalCamerasCount,   \* LightField.horizontalCamerasCount
    verticalCamerasCount,     \* LightField.verticalCamerasCount
    inputs,                   \* Renderer.inputs.numbers.lightField: texts
    thrown,                   \* what the last call raised to its caller
    lastCall                  \* the last call made and its arguments

gridVars == <<cameraArray, horizontalCamerasCount, verticalCamerasCount,
              inputs, thrown, lastCall>>

VARIABLES
    horizontalCameraSpace,    \* LightField.horizontalCameraSpace, in tenths
    verticalCameraSpace       \* LightField.verticalCameraSpace, in tenths

spaceVars == <<horizontalCameraSpace, verticalCameraSpace>>

VARIABLES
    objPositions,    \* ObjParser.#objPositions: pool, entry 1 is the sentinel
    objTexcoords,    \* ObjParser.#objTexcoords
    objNormals,      \* ObjParser.#objNormals
    objColors,       \* ObjParser.#objColors
    geometries,      \* ObjParser.#geometries: [data |-> the four arrays]
    geometry,        \* ObjParser.#geometry: its place in geometries, 0 for
                     \* undefined; #webglVertexData are its data arrays
    objThrown,       \* what parseObj raised, if anything
    lastLine         \* the last line handed to #addObjData

VARIABLES
    objMaterial,     \* ObjParser.#material: the name of the last usemtl
    objObject,       \* ObjParser.#object: the name of the last o line
    materials,       \* ObjParser.#materials: name -> its three map fields
    materialObject,  \* ObjParser.#materialObject: the name of the table
                     \* entry it is, NoName for the {} of init()
    materialLibs,    \* ObjParser.#materialLibs
    textures,        \* the filenames of the textures handed to parseObj
    mesh             \* the Mesh parseObj returned, if it has returned

mtlVars == <<objMaterial, objObject, materials, materialObject, materialLibs,
             textures, mesh>>

objVars == <<objPositions, objTexcoords, objNormals, objColors, geometries,
             geometry, objThrown, lastLine, mtlVars>>

VARIABLES
    objBufferInfo,   \* Renderer.objBufferInfo: per Geometry, what
                     \* getBufferInfo paired it with
    iteration,       \* the iterateCamerasAsync call of exportLightField
    calls            \* the callback invocations of the last iterateCameras
                     \* call, in order, with their arguments

rendererVars == <<objBufferInfo, iteration, calls>>

VARIABLES
    upload           \* which parse the renderer's objects come from: parse
                     \* is the number of upload handlers started (0 is the
                     \* constructor's parse of the cube), mesh and buffer
                     \* the parse that made Renderer.mesh and
                     \* Renderer.objBufferInfo (-1: not assigned yet), frame
                     \* what the last render() read of the two, batch the
                     \* files of the last handleFileUpload call and alert
                     \* what it has told the user

uploadVars == <<upload>>

VARIABLES
    tangentCall      \* the last call of Mesh.#generateTangents: its two
                     \* arguments and the array it returned

tangentVars == <<tangentCall>>

VARIABLES
    picking          \* the last handlePicking: the pixel it read and the
                     \* value it left in the camera selection box

pickingVars == <<picking>>

VARIABLES
    disabled,        \* the disabled flag of the page's controls
    inputElements,   \* the controls getElementsByTagName("input") and
                     \* getElementsByTagName("select") return
    exports,         \* the exportLightField calls made, in order
    loop,            \* the render loop: pending is the number of render()
                     \* callbacks requested and neither run nor cancelled,
                     \* animationId tells whether the frame Renderer.animationId
                     \* names is one of them
    mouse,           \* Renderer.mouseX / mouseY and canvas.onmousemove
    mainCamera,      \* Renderer.camera
    lightPosition    \* the value of the select lightPositionOptions

pageVars == <<disabled, inputElements, exports, loop, mouse, mainCamera,
              lightPosition>>

vars == <<gridVars, spaceVars, objVars, rendererVars, uploadVars, tangentVars, pickingVars, pageVars>>

(* --------------------------- LightField ------------------------------- *)

\* new LightFieldCamera(x, y, z): not selected, color not yet assigned,
\* _projectionMatrix undefined
NewCamera(position) ==
    [selected |-> FALSE, color |-> <<>>, projection |-> FALSE,
     position |-> position]

\* a coordinate after `steps` executions of position += step
RECURSIVE Accumulate(_, _, _)
Accumulate(start, step, steps) ==
    IF steps = 0 THEN start ELSE Accumulate(start, step, steps - 1) + step

\* xPosition without the reset to this.posX at the end of a row
XPosition_NoReset(cols, row, column, space) ==
    Accumulate(defaultPosition[1], space[1], row * cols + column)

\* xPosition when the camera at (row, column) is created: reset to
\* this.posX before each row, += horizontalCameraSpace after each camera
XPosition(cols, row, column, space) ==
    Accumulate(defaultPosition[1], space[1], column)

\* yPosition in row `row`: -= verticalCameraSpace after each row
YPosition(row, space) == Accumulate(defaultPosition[2], 0 - space[2], row)

\* the nested creation loops of initCameras; space holds
\* horizontalCameraSpace and verticalCameraSpace
NewGrid(cols, rows, space) ==
    [r \in 1..rows |-> [c \in 1..cols |->
        NewCamera(<<XPosition(cols, r - 1, c - 1, space),
                    YPosition(r - 1, space), defaultPosition[3]>>)]]

\* getCamera(row, column): what it raises
GetCameraThrows(arr, row, column) ==
    IF row \notin 0..(Len(arr) - 1)
    THEN TypeError      \* this.#cameraArray[row] is undefined
    ELSE IF column \notin 0..(Len(arr[row + 1]) - 1)
         THEN InvalidCameraIndexException
         ELSE NoThrow

\* Intermediate results (the code's local constants) are bound once with
\* CHOOSE x \in {f(y) : y \in {e}} : TRUE, the value of f at the value of e.

\* the number of cells the two loops of iterateCameras ask for
Total(h, v) == IF h <= 0 \/ v <= 0 THEN 0 ELSE h * v

\* the ordinals k = row * h + column at which getCamera raises
Raises(arr, h, v) ==
    {k \in 0..(Total(h, v) - 1) :
        GetCameraThrows(arr, k \div h, k % h) # NoThrow}

\* the place where the loops stop: the first raising ordinal, if any
FirstRaise(raises, total) ==
    IF raises = {} THEN total
    ELSE CHOOSE k \in raises : \A j \in raises : k <= j

\* iterateCameras: the cells visited, in order, until getCamera raises.
\* The loops visit ordinal k = row * h + column for k = 0, 1, ... and stop
\* at the first cell for which getCamera raises.
IterateCameras(arr, h, v) ==
    CHOOSE it \in
        {[thrown |-> IF stop = Total(h, v) THEN NoThrow
                     ELSE GetCameraThrows(arr, stop \div h, stop % h),
          visited |-> [i \in 1..stop |-> <<(i - 1) \div h, (i - 1) % h>>]] :
         stop \in {FirstRaise(Raises(arr, h, v), Total(h, v))}} : TRUE

IsSelectedAt(arr, cell) == arr[cell[1] + 1][cell[2] + 1].selected

\* the flagged cells among the visited ones, in visiting order
SelectedAmong(arr, visited) ==
    SelectSeq(visited, LAMBDA cell : IsSelectedAt(arr, cell))

\* the callback of selectedCamera: the last flagged camera, <<>> for null
LastSelected(sel) == IF Len(sel) = 0 THEN <<>> ELSE sel[Len(sel)]

\* get selectedCamera: the last flagged camera visited, <<>> for null
SelectedCamera(arr, h, v) ==
    CHOOSE sc \in
        {[thrown |-> it.thrown,
          cell |-> LastSelected(SelectedAmong(arr, it.visited))] :
         it \in {IterateCameras(arr, h, v)}} : TRUE

\* index.push(row, column) for each of the cells, in order
RECURSIVE PushIndex(_)
PushIndex(cells) ==
    IF cells = <<>> THEN <<>> ELSE cells[1] \o PushIndex(Tail(cells))

\* get selectedCameraIndex: row, column pushed for every flagged camera
SelectedCameraIndex(arr, h, v) ==
    CHOOSE idx \in
        {[thrown |-> it.thrown,
          index |-> PushIndex(SelectedAmong(arr, it.visited))] :
         it \in {IterateCameras(arr, h, v)}} : TRUE

\* the counter with the third channel never incremented
CameraColorCounter_TwoChannels(selectedOrdinals, iterator) ==
    LET Skipped(m) == Cardinality({j \in selectedOrdinals :
                                      j <= iterator /\ j % 3 = m})
    IN  <<iterator \div 3 - Skipped(0),
          (iterator + 2) \div 3 - Skipped(1),
          0,
          255>>

\* The counter cameraColor of #updateCameraColors after the callback has run
\* for the camera with ordinal `iterator` (1, 2, ... in visiting order).  It
\* starts at [0, 0, 0, 255]; the callback leaves it alone at a selected
\* camera and otherwise increments channel 0 when iterator % 3 = 0, channel
\* 1 when iterator % 3 = 1 and channel 2 when iterator % 3 = 2.  Hence each
\* channel counts the non-selected ordinals 1..iterator of its residue
\* class; selectedOrdinals are the ordinals of the selected cameras.
CameraColorCounter(selectedOrdinals, iterator) ==
    LET Skipped(m) == Cardinality({j \in selectedOrdinals :
                                      j <= iterator /\ j % 3 = m})
    IN  <<iterator \div 3 - Skipped(0),
          (iterator + 2) \div 3 - Skipped(1),
          (iterator + 1) \div 3 - Skipped(2),
          255>>

\* the callback of #updateCameraColors applied to the n cameras visited:
\* each gets the selected color, or a copy of the counter after its own
\* increment
ColorVisited(arr, h, n, selectedOrdinals) ==
    [r \in DOMAIN arr |-> [c \in DOMAIN arr[r] |->
        IF c <= h /\ (r - 1) * h + c <= n
        THEN [arr[r][c] EXCEPT !.color =
                 IF arr[r][c].selected THEN selectedColor
                 ELSE CameraColorCounter(selectedOrdinals, (r - 1) * h + c)]
        ELSE arr[r][c]]]

\* #updateCameraColors
UpdateCameraColors(arr, h, v) ==
    CHOOSE res \in
        {[arr |-> ColorVisited(arr, h, Len(it.visited),
                      {j \in 1..Len(it.visited) :
                          IsSelectedAt(arr, it.visited[j])}),
          thrown |-> it.thrown] :
         it \in {IterateCameras(arr, h, v)}} : TRUE

\* setSelectedCamera, lines 172-174: the selected camera, if any, loses
\* its flag
Deselect(arr, cell) ==
    IF cell # <<>>
    THEN [arr EXCEPT ![cell[1] + 1][cell[2] + 1].selected = FALSE]
    ELSE arr

\* setSelectedCamera, line 175: getCamera(row, column).selected = true
Select(arr, row, column) ==
    [arr |-> IF GetCameraThrows(arr, row, column) # NoThrow THEN arr
             ELSE [arr EXCEPT ![row + 1][column + 1].selected = TRUE],
     thrown |-> GetCameraThrows(arr, row, column)]

\* setSelectedCamera without the reset of the previous selection
SetSelectedCameraResult_NoClear(arr, h, v, row, column) ==
    CHOOSE res \in
        {IF sc.thrown # NoThrow THEN [arr |-> arr, thrown |-> sc.thrown]
         ELSE CHOOSE r \in
                  {IF set.thrown # NoThrow THEN set
                   ELSE UpdateCameraColors(set.arr, h, v) :
                   set \in {Select(arr, row, column)}} : TRUE :
         sc \in {SelectedCamera(arr, h, v)}} : TRUE

\* setSelectedCamera without the call of #updateCameraColors
SetSelectedCameraResult_NoRecolor(arr, h, v, row, column) ==
    CHOOSE res \in
        {IF sc.thrown # NoThrow THEN [arr |-> arr, thrown |-> sc.thrown]
         ELSE Select(Deselect(arr, sc.cell), row, column) :
         sc \in {SelectedCamera(arr, h, v)}} : TRUE

\* setSelectedCamera(row, column)
SetSelectedCameraResult(arr, h, v, row, column) ==
    CHOOSE res \in
        {IF sc.thrown # NoThrow THEN [arr |-> arr, thrown |-> sc.thrown]
         ELSE CHOOSE r \in
                  {IF set.thrown # NoThrow THEN set
                   ELSE UpdateCameraColors(set.arr, h, v) :
                   set \in {Select(Deselect(arr, sc.cell), row, column)}} :
                  TRUE :
         sc \in {SelectedCamera(arr, h, v)}} : TRUE

\* initCameras, line 72: [selectedRow, selectedColumn] destructured from
\* [0, 0] for an empty camera array and from selectedCameraIndex otherwise
OldSelection(arr, h, v) ==
    IF Len(arr) = 0 THEN [thrown |-> NoThrow, index |-> <<0, 0>>]
    ELSE SelectedCameraIndex(arr, h, v)

\* element i of a destructured array
Destructure(index, i) == IF Len(index) >= i THEN index[i] ELSE Undefined

\* initCameras, lines 97-102: the try block and its catch
TrySelect(cols, rows, selectedRow, selectedColumn, space) ==
    CHOOSE res \in
        {IF try.thrown = NoThrow THEN try
         ELSE SetSelectedCameraResult(try.arr, cols, rows, 0, 0) :
         try \in {SetSelectedCameraResult(NewGrid(cols, rows, space), cols,
                                  rows,
                                          selectedRow, selectedColumn)}} :
        TRUE

\* initCameras that always selects camera (0, 0) in the new grid
InitCamerasResult_NoRestore(arr, h, v, cols, rows, space) ==
    CHOOSE out \in
        {[arr |-> res.arr, h |-> cols, v |-> rows, thrown |-> res.thrown] :
         res \in {SetSelectedCameraResult(NewGrid(cols, rows, space), cols,
                                  rows,
                                          0, 0)}} : TRUE

\* initCameras(horizontalCamerasCount, verticalCamerasCount)
InitCamerasResult(arr, h, v, cols, rows, space) ==
    CHOOSE out \in
        {IF idx.thrown # NoThrow
         THEN [arr |-> arr, h |-> h, v |-> v, thrown |-> idx.thrown]
         ELSE CHOOSE o \in
                  {[arr |-> res.arr, h |-> cols, v |-> rows,
                    thrown |-> res.thrown] :
                   res \in {TrySelect(cols, rows,
                                      Destructure(idx.index, 1),
                                      Destructure(idx.index, 2),
                                      space)}} : TRUE :
         idx \in {OldSelection(arr, h, v)}} : TRUE

(* ----------------------------- Renderer ------------------------------- *)

CountNames == {"horizontalCamerasCount", "verticalCamerasCount"}
SpaceNames == {"horizontalCameraSpace", "verticalCameraSpace"}
NoName == ""

\* the order in which initInputs walks inputs.numbers.lightField
NumberNames == <<"horizontalCamerasCount", "verticalCamerasCount",
                 "horizontalCameraSpace", "verticalCameraSpace">>

\* initNumber, for the inputs from position i on: input.value = field (for
\* a count input), then initCameras() with its default arguments; a raise
\* ends the walk
RECURSIVE InitNumbers(_, _, _)
InitNumbers(i, st, inp) ==
    IF i > Len(NumberNames) \/ st.thrown # NoThrow
    THEN [st |-> st, inp |-> inp]
    ELSE InitNumbers(i + 1,
                     InitCamerasResult(st.arr, st.h, st.v, st.h, st.v,
                                       spaceVars),
                     IF NumberNames[i] = "horizontalCamerasCount"
                     THEN [inp EXCEPT !.horizontalCamerasCount =
                                          NumberToString(st.h)]
                     ELSE IF NumberNames[i] = "verticalCamerasCount"
                     THEN [inp EXCEPT !.verticalCamerasCount =
                                          NumberToString(st.v)]
                     ELSE inp)

\* updateLightFieldCameraSelection: what it raises
UpdateLightFieldCameraSelectionThrows(arr, h, v) ==
    CHOOSE t \in
        {IF idx.thrown # NoThrow THEN idx.thrown
         ELSE IterateCameras(arr, h, v).thrown :
         idx \in {SelectedCameraIndex(arr, h, v)}} : TRUE

(* ------------------------------ actions ------------------------------- *)

Call(op, name, a, b) == [op |-> op, name |-> name, a |-> a, b |-> b]

\* direct call LightField.initCameras(cols, rows)
InitCameras(cols, rows) ==
    \E r \in {InitCamerasResult(cameraArray, horizontalCamerasCount,
                                verticalCamerasCount, cols, rows,
                                spaceVars)} :
        /\ cameraArray' = r.arr
        /\ horizontalCamerasCount' = r.h
        /\ verticalCamerasCount' = r.v
        /\ thrown' = r.thrown
        /\ lastCall' = Call("initCameras", NoName, cols, rows)
        /\ UNCHANGED <<inputs, objVars, rendererVars, spaceVars, uploadVars, tangentVars, pickingVars, pageVars>>

\* direct call LightField.setSelectedCamera(row, column)
SetSelectedCamera(row, column) ==
    \E r \in {SetSelectedCameraResult(cameraArray, horizontalCamerasCount,
                                      verticalCamerasCount, row, column)} :
        /\ cameraArray' = r.arr
        /\ thrown' = r.thrown
        /\ lastCall' = Call("setSelectedCamera", NoName, row, column)
        /\ UNCHANGED <<horizontalCamerasCount, verticalCamerasCount, inputs,
                       objVars, rendererVars, spaceVars, uploadVars, tangentVars, pickingVars, pageVars>>

(* ---------------------- LightField.iterateCameras --------------------- *)

\* the two loops of iterateCameras from (row, column) on, with the running
\* ordinal `iterator`: the arguments of every callback invocation, in
\* order, until the loops end or getCamera raises
RECURSIVE IterateCamerasLoop(_, _, _, _, _, _)
IterateCamerasLoop(arr, h, v, row, column, iterator) ==
    IF row >= v THEN [thrown |-> NoThrow, calls |-> <<>>]
    ELSE IF column >= h
    THEN IterateCamerasLoop(arr, h, v, row + 1, 0, iterator)
    ELSE IF GetCameraThrows(arr, row, column) # NoThrow
    THEN [thrown |-> GetCameraThrows(arr, row, column), calls |-> <<>>]
    ELSE CHOOSE r \in
            {[thrown |-> rest.thrown,
              calls |-> <<[camera |-> <<row, column>>, row |-> row,
                           column |-> column, iterator |-> iterator]>>
                        \o rest.calls] :
             rest \in {IterateCamerasLoop(arr, h, v, row, column + 1,
                                          iterator + 1)}} : TRUE

\* iterateCameras with let iterator = 0
IterateCamerasCalls_FromZero(arr, h, v) ==
    IterateCamerasLoop(arr, h, v, 0, 0, 0)

\* iterateCameras(callback): let iterator = 1, then the loops
IterateCamerasCalls(arr, h, v) == IterateCamerasLoop(arr, h, v, 0, 0, 1)

\* a call of iterateCameras with a callback that records its arguments
IterateCamerasCall ==
    /\ \E r \in {IterateCamerasCalls(cameraArray, horizontalCamerasCount,
                                      verticalCamerasCount)} :
           /\ calls' = r.calls
           /\ thrown' = r.thrown
    /\ lastCall' = Call("iterateCameras", NoName, 0, 0)
    /\ UNCHANGED <<cameraArray, horizontalCamerasCount, verticalCamerasCount,
                   inputs, objVars, objBufferInfo, iteration, spaceVars, uploadVars, tangentVars, pickingVars, pageVars>>

(* ------------------------------ Camera -------------------------------- *)

\* get viewProjectionMatrix without the test of _projectionMatrix
ViewProjectionMatrixThrows_NoTest(camera) == NoThrow

\* get viewProjectionMatrix: what it raises
ViewProjectionMatrixThrows(camera) ==
    IF ~camera.projection THEN InvalidCameraStateException ELSE NoThrow

\* setPerspective(...) on the grid camera (row, column)
SetPerspective(row, column) ==
    /\ row < Len(cameraArray)
    /\ column < Len(cameraArray[row + 1])
    /\ cameraArray' = [cameraArray EXCEPT
                          ![row + 1][column + 1].projection = TRUE]
    /\ thrown' = NoThrow
    /\ lastCall' = Call("setPerspective", NoName, row, column)
    /\ UNCHANGED <<horizontalCamerasCount, verticalCamerasCount, inputs,
                   objVars, rendererVars, spaceVars, uploadVars, tangentVars, pickingVars, pageVars>>

\* a read of viewProjectionMatrix of the grid camera (row, column)
ViewProjectionMatrix(row, column) ==
    /\ row < Len(cameraArray)
    /\ column < Len(cameraArray[row + 1])
    /\ thrown' = ViewProjectionMatrixThrows(cameraArray[row + 1][column + 1])
    /\ lastCall' = Call("viewProjectionMatrix", NoName, row, column)
    /\ UNCHANGED <<cameraArray, horizontalCamerasCount, verticalCamerasCount,
                   inputs, objVars, rendererVars, spaceVars, uploadVars, tangentVars, pickingVars, pageVars>>

\* getWorldViewProjectionMatrix(world) of the grid camera (row, column):
\* it reads viewProjectionMatrix and lets its error pass
GetWorldViewProjectionMatrix(row, column) ==
    /\ row < Len(cameraArray)
    /\ column < Len(cameraArray[row + 1])
    /\ thrown' = ViewProjectionMatrixThrows(cameraArray[row + 1][column + 1])
    /\ lastCall' = Call("getWorldViewProjectionMatrix", NoName, row, column)
    /\ UNCHANGED <<cameraArray, horizontalCamerasCount, verticalCamerasCount,
                   inputs, objVars, rendererVars, spaceVars, uploadVars, tangentVars, pickingVars, pageVars>>

(* --------------------- LightField.iterateCamerasAsync ------------------ *)

\* no iterateCamerasAsync call has been made
NoIteration == [pc |-> "idle", row |-> 0, column |-> 0, visited |-> <<>>,
                inProgress |-> 0, error |-> NoThrow]

\* callback(camera) without the await: the loop goes on at once
AwaitCallback_NoAwait(it) ==
    [it EXCEPT !.pc = "resume",
               !.visited = Append(@, <<it.row, it.column>>),
               !.inProgress = @ + 1]

\* await callback(camera): the callback is invoked for the camera at
\* (row, column), and the function waits for the promise it returns
AwaitCallback(it) ==
    [it EXCEPT !.pc = "await",
               !.visited = Append(@, <<it.row, it.column>>),
               !.inProgress = @ + 1]

\* the two loop tests at (row, column) and the loop body: the end of the
\* rows resolves the returned promise, the end of a row goes to the next
\* row, a raise of getCamera rejects the returned promise
RECURSIVE LoopTest(_, _, _, _)
LoopTest(it, arr, h, v) ==
    IF it.row >= v THEN [it EXCEPT !.pc = "resolved"]
    ELSE IF it.column >= h
    THEN LoopTest([it EXCEPT !.row = @ + 1, !.column = 0], arr, h, v)
    ELSE IF GetCameraThrows(arr, it.row, it.column) # NoThrow
    THEN [it EXCEPT !.pc = "rejected",
                    !.error = GetCameraThrows(arr, it.row, it.column)]
    ELSE AwaitCallback(it)

\* the call of iterateCamerasAsync by exportLightField: it runs to its
\* first await
IterateCamerasAsync ==
    /\ iteration.pc \in {"idle", "resolved", "rejected"}
    /\ iteration' = LoopTest(NoIteration, cameraArray, horizontalCamerasCount,
                             verticalCamerasCount)
    /\ UNCHANGED <<gridVars, objVars, objBufferInfo, calls, spaceVars, uploadVars, tangentVars, pickingVars, pageVars>>

\* canvas.toBlob calls back and the callback's promise is resolved
CallbackResolve ==
    /\ iteration.inProgress > 0
    /\ iteration' = [iteration EXCEPT
                        !.inProgress = @ - 1,
                        !.pc = IF @ = "await" THEN "resume" ELSE @]
    /\ UNCHANGED <<gridVars, objVars, objBufferInfo, calls, spaceVars, uploadVars, tangentVars, pickingVars, pageVars>>

\* the function goes on after its await: column++ and the loop tests
Resume ==
    /\ iteration.pc = "resume"
    /\ iteration' = LoopTest([iteration EXCEPT !.column = @ + 1], cameraArray,
                             horizontalCamerasCount, verticalCamerasCount)
    /\ UNCHANGED <<gridVars, objVars, objBufferInfo, calls, spaceVars, uploadVars, tangentVars, pickingVars, pageVars>>

\* Renderer.initInputs: the four number inputs of the light field, then the
\* selects (initSelect): the light's, which disables the light's sliders,
\* and the camera selection box
InitInputs ==
    /\ ~inputs.ready
    /\ \E w \in {InitNumbers(1, [arr |-> cameraArray,
                                 h |-> horizontalCamerasCount,
                                 v |-> verticalCamerasCount,
                                 thrown |-> NoThrow], inputs)} :
       \E s \in {IF w.st.thrown # NoThrow
                 THEN [arr |-> w.st.arr, thrown |-> w.st.thrown]
                 ELSE SetSelectedCameraResult(w.st.arr, w.st.h, w.st.v,
                                              0, 0)} :
       \E u \in {IF s.thrown # NoThrow THEN s.thrown
                 ELSE UpdateLightFieldCameraSelectionThrows(s.arr, w.st.h,
                                                            w.st.v)} :
           /\ cameraArray' = s.arr
           /\ horizontalCamerasCount' = w.st.h
           /\ verticalCamerasCount' = w.st.v
           /\ thrown' = u
           /\ inputs' = [w.inp EXCEPT !.ready = (u = NoThrow)]
           /\ disabled' = IF w.st.thrown # NoThrow THEN disabled
                          ELSE [disabled EXCEPT !["lightXPos"] = TRUE]
    /\ lastCall' = Call("initInputs", NoName, 0, 0)
    /\ UNCHANGED <<objVars, rendererVars, spaceVars, uploadVars, tangentVars,
                   pickingVars, inputElements, exports, loop, mouse,
                   mainCamera, lightPosition>>

\* the tail shared by both onchange handlers: initCameras with the parsed
\* texts of the two count inputs, then updateLightFieldCameraSelection
ReInit(h, v, inp, space) ==
    \E r \in {InitCamerasResult(cameraArray, h, v,
                                ParseInt(inp.horizontalCamerasCount),
                                ParseInt(inp.verticalCamerasCount),
                                space)} :
        /\ cameraArray' = r.arr
        /\ horizontalCamerasCount' = r.h
        /\ verticalCamerasCount' = r.v
        /\ thrown' = IF r.thrown # NoThrow THEN r.thrown
                     ELSE UpdateLightFieldCameraSelectionThrows(r.arr, r.h, r.v)
        /\ inputs' = inp

\* input.onchange of a camera-count input whose text is now `text`
CountChange(name, text) ==
    /\ inputs.ready
    /\ LET value == ParseFloatHalves(text)
           clamp == value < 2 * minCameras \/ value > 2 * maxCameras
           shown == IF clamp
                    THEN NumberToString(IF value < 2 * minCameras
                                        THEN minCameras ELSE maxCameras)
                    ELSE text
           h == IF clamp /\ name = "horizontalCamerasCount"
                THEN ParseInt(shown) ELSE horizontalCamerasCount
           v == IF clamp /\ name = "verticalCamerasCount"
                THEN ParseInt(shown) ELSE verticalCamerasCount
       IN  ReInit(h, v, [inputs EXCEPT ![name] = shown], spaceVars)
    /\ lastCall' = Call("countChange", name, text, 0)
    /\ UNCHANGED <<objVars, rendererVars, spaceVars, uploadVars, tangentVars, pickingVars, pageVars>>

\* what the onchange handler of a spacing input stores in the field:
\* the number parseFloat read, or minCameraSpace when it is smaller
ClampSpace(value) == IF value < minCameraSpace THEN minCameraSpace ELSE value

\* input.onchange of a camera-spacing input, where parseFloat read `value`
\* (in tenths) from its text: it writes the spacing field and re-initialises
\* the grid with the new spacing
SpaceChange(name, value) ==
    /\ inputs.ready
    /\ horizontalCameraSpace' = IF name = "horizontalCameraSpace"
                                THEN ClampSpace(value)
                                ELSE horizontalCameraSpace
    /\ verticalCameraSpace' = IF name = "verticalCameraSpace"
                              THEN ClampSpace(value)
                              ELSE verticalCameraSpace
    /\ ReInit(horizontalCamerasCount, verticalCamerasCount, inputs,
              <<IF name = "horizontalCameraSpace"
                THEN ClampSpace(value) ELSE horizontalCameraSpace,
                IF name = "verticalCameraSpace"
                THEN ClampSpace(value) ELSE verticalCameraSpace>>)
    /\ lastCall' = Call("spaceChange", name, value, 0)
    /\ UNCHANGED <<objVars, rendererVars, uploadVars, tangentVars, pickingVars, pageVars>>

(* ----------------------------- ObjParser ------------------------------ *)

\* A line is handed to #addObjData as a keyword and its fields.  Numeric
\* fields are modelled by the numbers parseFloat / parseInt read from them.
\* A face vertex token is the sequence of the pieces vertex.split('/')
\* yields: <<n>> for the text of the integer n, <<>> for the empty string.

Forms == {"p", "p/t", "p//n", "p/t/n"}
NoFace == [n |-> 0, form |-> "", neg |-> FALSE]

\* the k-th vertex token of a face line of the given form; the position
\* sub-index is k (or -k), the other sub-indices are 1 (or -1); the form
\* "first" is the face whose tokens all name the first (or last) v record
Token(face, k) ==
    LET pIdx == IF face.neg THEN 0 - k ELSE k
        x == IF face.neg THEN 0 - 1 ELSE 1
    IN  CASE face.form = "p" -> << <<pIdx>> >>
          [] face.form = "first" -> << <<x>> >>
          [] face.form = "p/t" -> << <<pIdx>>, <<x>> >>
          [] face.form = "p//n" -> << <<pIdx>>, <<>>, <<x>> >>
          [] face.form = "p/t/n" -> << <<pIdx>>, <<x>>, <<x>> >>

\* data of the face line: its vertex tokens
FaceTokens(face) == [k \in 1..face.n |-> Token(face, k)]

\* #objVertexData[i]
ObjVertexData(i) ==
    CASE i = 0 -> objPositions
      [] i = 1 -> objTexcoords
      [] i = 2 -> objNormals
      [] i = 3 -> objColors

\* a negative index counted from the last entry instead of past it
ResolveIndex_OffByOne(objIndex, poolLength) ==
    objIndex + (IF objIndex >= 0 THEN 0 ELSE poolLength - 1)

\* objIndex + (objIndex >= 0 ? 0 : pool.length)
ResolveIndex(objIndex, poolLength) ==
    objIndex + (IF objIndex >= 0 THEN 0 ELSE poolLength)

\* pool[index] is not undefined
Defined(pool, index) == index \in 0..(Len(pool) - 1)

\* the forEach callback with a color guard that waits for a second colored
\* v record (#objColors.length > 2)
RECURSIVE AddVertexPieces_SecondColor(_, _, _)
AddVertexPieces_SecondColor(data, pieces, i) ==
    IF i >= Len(pieces)
    THEN [data |-> data, thrown |-> NoThrow]
    ELSE LET objIndex == pieces[i + 1][1]
             pool == ObjVertexData(i)
             index == ResolveIndex(objIndex, Len(pool))
         IN  IF ~Defined(pool, index)
             THEN [data |-> data, thrown |-> TypeError]
             ELSE LET pushed == [data EXCEPT ![i + 1] = @ \o pool[index + 1]]
                  IN  IF i = 0 /\ Len(objColors) > 2
                      THEN IF ~Defined(objColors, index)
                           THEN [data |-> pushed, thrown |-> TypeError]
                           ELSE AddVertexPieces_SecondColor(
                                    [pushed EXCEPT ![4] = @ \o objColors[index + 1]],
                                    pieces, i + 1)
                      ELSE AddVertexPieces_SecondColor(pushed, pieces, i + 1)

\* the forEach callback of #addVertex for the pieces from position i (0-based)
\* on; data are the four arrays of #webglVertexData, which are the data
\* arrays of #geometry; spreading an undefined entry raises TypeError
RECURSIVE AddVertexPieces(_, _, _)
AddVertexPieces(data, pieces, i) ==
    IF i >= Len(pieces)
    THEN [data |-> data, thrown |-> NoThrow]
    ELSE LET objIndex == pieces[i + 1][1]
             pool == ObjVertexData(i)
             index == ResolveIndex(objIndex, Len(pool))
         IN  IF ~Defined(pool, index)
             THEN [data |-> data, thrown |-> TypeError]
             ELSE LET pushed == [data EXCEPT ![i + 1] = @ \o pool[index + 1]]
                  IN  IF i = 0 /\ Len(objColors) > 1
                      THEN IF ~Defined(objColors, index)
                           THEN [data |-> pushed, thrown |-> TypeError]
                           ELSE AddVertexPieces(
                                    [pushed EXCEPT ![4] = @ \o objColors[index + 1]],
                                    pieces, i + 1)
                      ELSE AddVertexPieces(pushed, pieces, i + 1)

\* #addVertex(vertex): split('/'), drop the empty pieces, resolve the rest
AddVertex(data, vertex) ==
    AddVertexPieces(data, SelectSeq(vertex, LAMBDA piece : piece # <<>>), 0)

\* a triangle strip instead of a fan: triangle t starts at token t
RECURSIVE FaceVertexOrder_Strip(_, _)
FaceVertexOrder_Strip(tokens, triangle) ==
    IF triangle >= Len(tokens) - 2
    THEN <<>>
    ELSE <<tokens[triangle + 1], tokens[triangle + 2], tokens[triangle + 3]>>
         \o FaceVertexOrder_Strip(tokens, triangle + 1)

\* the vertices the triangle loop of case 'f' hands to #addVertex, in order
RECURSIVE FaceVertexOrder(_, _)
FaceVertexOrder(tokens, triangle) ==
    IF triangle >= Len(tokens) - 2
    THEN <<>>
    ELSE <<tokens[1], tokens[triangle + 2], tokens[triangle + 3]>>
         \o FaceVertexOrder(tokens, triangle + 1)

\* #addVertex for each vertex of the list, until one raises
RECURSIVE AddVertices(_, _)
AddVertices(data, vertices) ==
    IF vertices = <<>>
    THEN [data |-> data, thrown |-> NoThrow]
    ELSE LET r == AddVertex(data, Head(vertices))
         IN  IF r.thrown # NoThrow THEN r
             ELSE AddVertices(r.data, Tail(vertices))

\* the empty arrays position, texcoord, normal, color of #setGeometry
EmptyData == << <<>>, <<>>, <<>>, <<>> >>

\* #geometry is a Geometry of an earlier parse, which init() did not give
\* up and which is not in the new #geometries
LeftOver == -1

\* case 'f' with a #setGeometry that makes a new Geometry for every face
AddFaceResult_AlwaysNew(geoms, geom, tokens) ==
    LET set == [geoms |-> Append(geoms, [object |-> objObject,
                                         material |-> objMaterial,
                                         data |-> EmptyData]),
                geom |-> Len(geoms) + 1]
        r == AddVertices(set.geoms[set.geom].data, FaceVertexOrder(tokens, 0))
    IN  [geoms |-> [set.geoms EXCEPT ![set.geom].data = r.data],
         geom |-> set.geom,
         thrown |-> r.thrown]

\* case 'f' with a #setGeometry that goes back to the Geometry that already
\* carries the current object and material names
AddFaceResult_PerPair(geoms, geom, tokens) ==
    LET same == {g \in DOMAIN geoms : /\ geoms[g].object = objObject
                                      /\ geoms[g].material = objMaterial}
        set == IF geom # 0 THEN [geoms |-> geoms, geom |-> geom]
               ELSE IF same # {}
               THEN [geoms |-> geoms, geom |-> CHOOSE g \in same : TRUE]
               ELSE [geoms |-> Append(geoms, [object |-> objObject,
                                              material |-> objMaterial,
                                              data |-> EmptyData]),
                     geom |-> Len(geoms) + 1]
        r == AddVertices(set.geoms[set.geom].data, FaceVertexOrder(tokens, 0))
    IN  [geoms |-> [set.geoms EXCEPT ![set.geom].data = r.data],
         geom |-> set.geom,
         thrown |-> r.thrown]

\* case 'f': #setGeometry (a new Geometry takes the current object and
\* material names), then the triangle loop; with a Geometry left over from
\* an earlier parse #setGeometry does nothing and the loop fills the arrays
\* init() made, which belong to no Geometry
AddFaceResult(geoms, geom, tokens) ==
    IF geom = LeftOver
    THEN [geoms |-> geoms, geom |-> geom,
          thrown |-> AddVertices(EmptyData, FaceVertexOrder(tokens, 0)).thrown]
    ELSE
    LET set == IF geom = 0
               THEN [geoms |-> Append(geoms, [object |-> objObject,
                                              material |-> objMaterial,
                                              data |-> EmptyData]),
                     geom |-> Len(geoms) + 1]
               ELSE [geoms |-> geoms, geom |-> geom]
        r == AddVertices(set.geoms[set.geom].data, FaceVertexOrder(tokens, 0))
    IN  [geoms |-> [set.geoms EXCEPT ![set.geom].data = r.data],
         geom |-> set.geom,
         thrown |-> r.thrown]

Line(keyword, kind, face) == [keyword |-> keyword, kind |-> kind, face |-> face]

\* fields of the v line that becomes entry number `index` of the pool:
\* three coordinates, followed by three color components when colored
VFields(index, kind) ==
    IF kind = "colored"
    THEN <<10 * index, 10 * index + 1, 10 * index + 2,
           10 * index + 5, 10 * index + 6, 10 * index + 7>>
    ELSE <<10 * index, 10 * index + 1, 10 * index + 2>>

\* fields of a vt line (two or three components) and of a vn line
VtFields(index, arity) == [j \in 1..arity |-> 100 + 10 * index + j]
VnFields(index) == <<200 + 10 * index, 201 + 10 * index, 202 + 10 * index>>

\* case 'v' without the split at the third field
LineV_NoSplit(kind) ==
    /\ objThrown = NoThrow
    /\ Len(objPositions) <= MaxV
    /\ objPositions' = Append(objPositions, VFields(Len(objPositions), kind))
    /\ objColors' = objColors
    /\ lastLine' = Line("v", kind, NoFace)
    /\ UNCHANGED <<objTexcoords, objNormals, geometries, geometry, objThrown,
                   mtlVars, gridVars, rendererVars, spaceVars, uploadVars, tangentVars, pickingVars, pageVars>>

\* case 'v'
LineV(kind) ==
    /\ objThrown = NoThrow
    /\ Len(objPositions) <= MaxV
    /\ LET data == VFields(Len(objPositions), kind)
       IN  IF Len(data) > 3
           THEN /\ objPositions' = Append(objPositions, SubSeq(data, 1, 3))
                /\ objColors' = Append(objColors, SubSeq(data, 4, Len(data)))
           ELSE /\ objPositions' = Append(objPositions, data)
                /\ objColors' = objColors
    /\ lastLine' = Line("v", kind, NoFace)
    /\ UNCHANGED <<objTexcoords, objNormals, geometries, geometry, objThrown,
                   mtlVars, gridVars, rendererVars, spaceVars, uploadVars, tangentVars, pickingVars, pageVars>>

\* case 'vn'
LineVn ==
    /\ objThrown = NoThrow
    /\ Len(objNormals) <= MaxVn
    /\ objNormals' = Append(objNormals, VnFields(Len(objNormals)))
    /\ lastLine' = Line("vn", "", NoFace)
    /\ UNCHANGED <<objPositions, objTexcoords, objColors, geometries, geometry,
                   objThrown, mtlVars, gridVars, rendererVars, spaceVars, uploadVars, tangentVars, pickingVars, pageVars>>

\* the number of fields of a vt line, as the kind of the line
VtKind(arity) == <<"one", "two", "three">>[arity]

\* case 'vt' without the test of data.length
LineVt_AnyArity(arity) ==
    /\ objThrown = NoThrow
    /\ Len(objTexcoords) <= MaxVt
    /\ objTexcoords' = Append(objTexcoords, VtFields(Len(objTexcoords), arity))
    /\ lastLine' = Line("vt", VtKind(arity), NoFace)
    /\ UNCHANGED <<objPositions, objNormals, objColors, geometries, geometry,
                   objThrown, mtlVars, gridVars, rendererVars, spaceVars, uploadVars, tangentVars, pickingVars, pageVars>>

\* case 'vt'
LineVt(arity) ==
    /\ objThrown = NoThrow
    /\ Len(objTexcoords) <= MaxVt
    /\ LET data == VtFields(Len(objTexcoords), arity)
       IN  objTexcoords' = IF Len(data) = 2 THEN Append(objTexcoords, data)
                           ELSE objTexcoords
    /\ lastLine' = Line("vt", VtKind(arity), NoFace)
    /\ UNCHANGED <<objPositions, objNormals, objColors, geometries, geometry,
                   objThrown, mtlVars, gridVars, rendererVars, spaceVars, uploadVars, tangentVars, pickingVars, pageVars>>

\* triangles (9 position floats each) held by the first Geometry
FirstGeometryTriangles ==
    IF geometries = <<>> THEN 0 ELSE Len(geometries[1].data[1]) \div 9

\* case 'f'; a raise ends parseObj
LineF(face) ==
    /\ objThrown = NoThrow
    /\ LET r == AddFaceResult(geometries, geometry, FaceTokens(face))
       IN  /\ geometries' = r.geoms
           /\ geometry' = r.geom
           /\ objThrown' = r.thrown
    /\ lastLine' = Line("f", "", face)
    /\ UNCHANGED <<objPositions, objTexcoords, objNormals, objColors, mtlVars,
                   gridVars, rendererVars, spaceVars, uploadVars, tangentVars, pickingVars, pageVars>>

\* a WebGLTexture handle, a filename of a map line, the {} that
\* JSON.parse(JSON.stringify(...)) makes of a texture handle
Texture(id) == [kind |-> "texture", id |-> id]
FileName(file) == [kind |-> "file", id |-> file]
ClonedTexture == [kind |-> "object", id |-> ""]

MapKeys == {"u_diffuseMap", "u_specularMap", "u_normalMap"}

\* a number held by a material field
Number(value) == [kind |-> "number", id |-> value]

\* the field of a material that the Ns line writes; the other fields that
\* hold numbers (u_opacity, u_diffuse, ...) are written the same way
ScalarKeys == {"u_shininess"}

\* u_shininess: 400 in init()
DefaultShininess == 400

\* materials.default of init(): its fields ending in Map hold the 1-pixel
\* textures of Utils.create1PixelTexture
DefaultMaterial ==
    [key \in MapKeys \cup ScalarKeys |->
        IF key \in MapKeys THEN Texture(key) ELSE Number(DefaultShininess)]

\* no Mesh returned yet
NoMesh == [state |-> "none", position |-> <<0, 0, 0>>]

\* the parser after its constructor (init())
ObjInit ==
    /\ objPositions = << <<0, 0, 0>> >>
    /\ objTexcoords = << <<0, 0>> >>
    /\ objNormals = << <<0, 0, 0>> >>
    /\ objColors = << <<0, 0, 0>> >>
    /\ geometries = <<>>
    /\ geometry = 0
    /\ objThrown = NoThrow
    /\ lastLine = Line("", "", NoFace)
    /\ objMaterial = "default"
    /\ objObject = "default"
    /\ materials = [name \in {"default"} |-> DefaultMaterial]
    /\ materialObject = NoName
    /\ materialLibs = <<>>
    /\ textures = {}
    /\ mesh = NoMesh

\* the face lines read: 0..MaxFaceVerts vertex tokens of one form; the
\* tokens of a face with fewer than 3 vertices are never looked at, so one
\* form stands for all of them
(* ------------------- ObjParser: names and materials ------------------- *)

\* a #newGeometry that gives the current Geometry up whatever it holds
NewGeometry_Always(geoms, geom) == IF geom = LeftOver THEN geom ELSE 0

\* #newGeometry: the current Geometry is given up once it holds positions;
\* a Geometry left over from an earlier parse holds none and never gets any
NewGeometry(geoms, geom) ==
    IF geom \notin {0, LeftOver} /\ Len(geoms[geom].data[1]) > 0
    THEN 0 ELSE geom

\* case 'usemtl'
LineUsemtl(name) ==
    /\ objThrown = NoThrow
    /\ objMaterial' = name
    /\ geometry' = NewGeometry(geometries, geometry)
    /\ lastLine' = Line("usemtl", name, NoFace)
    /\ UNCHANGED <<objPositions, objTexcoords, objNormals, objColors,
                   geometries, objThrown, objObject, materials,
                   materialObject, materialLibs, textures, mesh, gridVars,
                   rendererVars, spaceVars, uploadVars, tangentVars, pickingVars, pageVars>>

\* case 'o'
LineO(name) ==
    /\ objThrown = NoThrow
    /\ objObject' = name
    /\ geometry' = NewGeometry(geometries, geometry)
    /\ lastLine' = Line("o", name, NoFace)
    /\ UNCHANGED <<objPositions, objTexcoords, objNormals, objColors,
                   geometries, objThrown, objMaterial, materials,
                   materialObject, materialLibs, textures, mesh, gridVars,
                   rendererVars, spaceVars, uploadVars, tangentVars, pickingVars, pageVars>>

\* case 'mtllib'
LineMtllib(name) ==
    /\ objThrown = NoThrow
    /\ materialLibs' = Append(materialLibs, name)
    /\ geometry' = NewGeometry(geometries, geometry)
    /\ lastLine' = Line("mtllib", name, NoFace)
    /\ UNCHANGED <<objPositions, objTexcoords, objNormals, objColors,
                   geometries, objThrown, objMaterial, objObject, materials,
                   materialObject, textures, mesh, gridVars, rendererVars, spaceVars, uploadVars, tangentVars, pickingVars, pageVars>>

\* JSON.parse(JSON.stringify(material)): a number and a filename survive,
\* a texture handle becomes {}
JsonClone(material) ==
    [key \in DOMAIN material |->
        IF material[key].kind = "texture" THEN ClonedTexture
        ELSE material[key]]

\* case 'newmtl': a copy of materials.default becomes #materialObject and
\* the table entry of that name
LineNewmtl(name) ==
    /\ objThrown = NoThrow
    /\ materials' = [n \in DOMAIN materials \cup {name} |->
                        IF n = name THEN JsonClone(materials["default"])
                        ELSE materials[n]]
    /\ materialObject' = name
    /\ lastLine' = Line("newmtl", name, NoFace)
    /\ UNCHANGED <<objPositions, objTexcoords, objNormals, objColors,
                   geometries, geometry, objThrown, objMaterial, objObject,
                   materialLibs, textures, mesh, gridVars, rendererVars, spaceVars, uploadVars, tangentVars, pickingVars, pageVars>>

\* the field a map keyword writes
MapKeywords == {"map_Kd", "map_Ns", "mapBump"}
MapKey(keyword) ==
    CASE keyword = "map_Kd" -> "u_diffuseMap"
      [] keyword = "map_Ns" -> "u_specularMap"
      [] keyword = "mapBump" -> "u_normalMap"

\* cases 'map_Kd', 'map_Ns', 'mapBump': the last field of the line goes
\* into #materialObject; the {} of init() is in no table entry
LineMap(keyword, file) ==
    /\ objThrown = NoThrow
    /\ materials' = IF materialObject = NoName THEN materials
                    ELSE [materials EXCEPT
                            ![materialObject][MapKey(keyword)] = FileName(file)]
    /\ lastLine' = Line(keyword, file, NoFace)
    /\ UNCHANGED <<objPositions, objTexcoords, objNormals, objColors,
                   geometries, geometry, objThrown, objMaterial, objObject,
                   materialObject, materialLibs, textures, mesh, gridVars,
                   rendererVars, spaceVars, uploadVars, tangentVars, pickingVars, pageVars>>

\* case 'Ns': parseFloat(data[0]) goes into #materialObject.u_shininess
LineNs(value) ==
    /\ objThrown = NoThrow
    /\ materials' = IF materialObject = NoName THEN materials
                    ELSE [materials EXCEPT
                            ![materialObject]["u_shininess"] = Number(value)]
    /\ lastLine' = Line("Ns", "", NoFace)
    /\ UNCHANGED <<objPositions, objTexcoords, objNormals, objColors,
                   geometries, geometry, objThrown, objMaterial, objObject,
                   materialObject, materialLibs, textures, mesh, gridVars,
                   rendererVars, spaceVars, uploadVars, tangentVars, pickingVars, pageVars>>

\* default case of the switch: a keyword the parser does not know
LineOther(keyword) ==
    /\ objThrown = NoThrow
    /\ lastLine' = Line(keyword, "", NoFace)
    /\ UNCHANGED <<objPositions, objTexcoords, objNormals, objColors,
                   geometries, geometry, objThrown, mtlVars, gridVars,
                   rendererVars, spaceVars, uploadVars, tangentVars, pickingVars, pageVars>>

(* ------------------- ObjParser: the end of parseObj ------------------- *)

\* the texture post-pass on one map field: a filename with a supplied
\* texture takes that texture; what then is neither a supplied filename nor
\* a texture handle takes the field of materials.default
ResolveMap(value, supplied, default) ==
    IF value.kind = "file" /\ value.id \in supplied THEN Texture(value.id)
    ELSE IF value.kind = "texture" THEN value
    ELSE default

\* the post-pass over Object.values(#materials): default is the first
\* entry, so the other materials read its fields after its own pass
ResolveMaterials(mats, supplied) ==
    [n \in DOMAIN mats |-> [key \in DOMAIN mats[n] |->
        IF key \notin MapKeys THEN mats[n][key]
        ELSE IF n = "default"
        THEN ResolveMap(mats[n][key], supplied, mats[n][key])
        ELSE ResolveMap(mats[n][key], supplied,
                        ResolveMap(mats["default"][key], supplied,
                                   mats["default"][key]))]]

\* Mesh.#getExtents on one axis (1, 2, 3) of a position array
AxisValues(positions, axis) ==
    {positions[3 * k + axis] : k \in 0..(Len(positions) \div 3 - 1)}
Minimum(S) == CHOOSE x \in S : \A y \in S : x <= y
Maximum(S) == CHOOSE x \in S : \A y \in S : x >= y
GetExtents(positions) ==
    [min |-> [axis \in 1..3 |-> Minimum(AxisValues(positions, axis))],
     max |-> [axis \in 1..3 |-> Maximum(AxisValues(positions, axis))]]

\* Mesh.geometriesExtents for at least one Geometry: the reduce that
\* starts at +Infinity / -Infinity
GeometriesExtents(geoms) ==
    [min |-> [axis \in 1..3 |-> Minimum(
                 {GetExtents(geoms[g].data[1]).min[axis] : g \in DOMAIN geoms})],
     max |-> [axis \in 1..3 |-> Maximum(
                 {GetExtents(geoms[g].data[1]).max[axis] : g \in DOMAIN geoms})]]

\* Mesh.centerOffset without the addition of extents.min
CenterOffset_HalfRange(extents) ==
    [axis \in 1..3 |-> 0 - (extents.max[axis] - extents.min[axis])]

\* Mesh.centerOffset, doubled: range = max - min, scaled by 0.5, plus min,
\* scaled by -1
CenterOffset(extents) ==
    [axis \in 1..3 |->
        0 - ((extents.max[axis] - extents.min[axis]) + 2 * extents.min[axis])]

\* the attributes of a Geometry's data, in the order of #setGeometry:
\* position, texcoord, normal, color
Attributes == 1..4

\* the post-pass over position, texcoord and normal alone: the color array
\* stays whatever its length
FilterData_WithoutColor(data) ==
    [i \in {j \in Attributes : j = 4 \/ Len(data[j]) > 0} |-> data[i]]

\* Object.fromEntries(Object.entries(geometry.data).filter(([, array]) =>
\* array.length > 0)): the data of a Geometry once parseObj has gone through
\* #geometries, the arrays of EndParse's Geometries seen by their names
FilterData(data) ==
    [i \in {j \in Attributes : Len(data[j]) > 0} |-> data[i]]

\* new Mesh(geometries, ...): center() reads data.position of every
\* Geometry; parseObj has removed the empty arrays, and slice of undefined
\* raises TypeError; without Geometries Infinity - Infinity gives NaN
NewMesh(geoms) ==
    IF \E g \in DOMAIN geoms : 1 \notin DOMAIN FilterData(geoms[g].data)
    THEN [thrown |-> TypeError, mesh |-> NoMesh]
    ELSE IF geoms = <<>>
    THEN [thrown |-> NoThrow, mesh |-> [state |-> "NaN", position |-> <<0, 0, 0>>]]
    ELSE [thrown |-> NoThrow,
          mesh |-> [state |-> "mesh",
                    position |-> CenterOffset(GeometriesExtents(geoms))]]

\* the end of parseObj(objText, textures): empty arrays leave the
\* Geometries, the texture post-pass, new Mesh
EndParse(supplied) ==
    /\ objThrown = NoThrow
    /\ lastLine.keyword # "eof"
    /\ textures' = supplied
    /\ materials' = ResolveMaterials(materials, supplied)
    /\ \E m \in {NewMesh(geometries)} :
           /\ objThrown' = m.thrown
           /\ mesh' = IF m.thrown = NoThrow THEN m.mesh ELSE mesh
           /\ upload' = IF m.thrown = NoThrow
                        THEN [upload EXCEPT !.mesh = upload.parse]
                        ELSE upload
    /\ lastLine' = Line("eof", "", NoFace)
    /\ UNCHANGED <<objPositions, objTexcoords, objNormals, objColors,
                   geometries, geometry, objMaterial, objObject,
                   materialObject, materialLibs, gridVars, rendererVars,
                   spaceVars, tangentVars, pickingVars, pageVars>>

(* ------------------------- Mesh.getBufferInfo -------------------------- *)

\* names that every object literal inherits from Object.prototype
PrototypeNames ==
    {"constructor", "toString", "toLocaleString", "valueOf", "hasOwnProperty",
     "isPrototypeOf", "propertyIsEnumerable", "__proto__"}

\* this.#materials[name]: a reference to the entry of that name, a member
\* inherited from Object.prototype, or undefined
MaterialsGet(mats, name) ==
    IF name \in DOMAIN mats THEN [kind |-> "entry", name |-> name]
    ELSE IF name \in PrototypeNames THEN [kind |-> "inherited", name |-> name]
    ELSE [kind |-> "undefined", name |-> ""]

\* a ?? b
NullishCoalescing(a, b) == IF a.kind = "undefined" THEN b ELSE a

\* what getBufferInfo returns for one Geometry: its material, and the form
\* in which color and tangent go to twgl.createBufferInfoFromArrays
BufferInfo(mats, geom) ==
    [material |-> NullishCoalescing(MaterialsGet(mats, geom.material),
                                    MaterialsGet(mats, "default")),
     color |-> IF Len(geom.data[4]) = 0 THEN "value"
               ELSE IF Len(geom.data[1]) = Len(geom.data[4])
               THEN "numComponents 3" ELSE "array",
     tangent |-> IF Len(geom.data[2]) > 0 /\ Len(geom.data[3]) > 0
                 THEN "generated" ELSE "value"]

\* this.objBufferInfo = this.mesh.getBufferInfo(this.gl), the statement of
\* the renderer that follows parseObj
GetBufferInfo ==
    /\ lastLine.keyword = "eof"
    /\ objThrown = NoThrow
    /\ upload.buffer # upload.parse
    /\ objBufferInfo' = [g \in DOMAIN geometries |->
                            BufferInfo(materials, geometries[g])]
    /\ upload' = [upload EXCEPT !.buffer = upload.parse]
    /\ UNCHANGED <<gridVars, objVars, iteration, calls, spaceVars, tangentVars, pickingVars, pageVars>>

(* ----------------------- Renderer.handlePicking ------------------------ *)

\* Utils.arrayEquals
ArrayEquals(firstArray, secondArray) ==
    /\ Len(firstArray) = Len(secondArray)
    /\ \A index \in 1..Len(firstArray) :
           firstArray[index] = secondArray[index]

\* the callback of handlePicking without the call of setSelectedCamera:
\* only the selection box follows the pixel
PickCamera_BoxOnly(arr, h, v, row, column) == [arr |-> arr, thrown |-> NoThrow]

\* the callback of handlePicking on a camera whose color is the pixel
PickCamera(arr, h, v, row, column) ==
    SetSelectedCameraResult(arr, h, v, row, column)

\* iterateCameras with the callback of handlePicking, from ordinal k on:
\* the callback compares the pixel with the color the camera has when it is
\* visited, and on a match selects it (which recolors the grid) and writes
\* row_column into the selection box; a raise of getCamera ends the walk
RECURSIVE PickFrom(_, _, _, _, _, _)
PickFrom(arr, h, v, k, data, value) ==
    IF k >= Total(h, v)
    THEN [arr |-> arr, thrown |-> NoThrow, value |-> value]
    ELSE IF GetCameraThrows(arr, k \div h, k % h) # NoThrow
    THEN [arr |-> arr, thrown |-> GetCameraThrows(arr, k \div h, k % h),
          value |-> value]
    ELSE IF ~ArrayEquals(data, arr[(k \div h) + 1][(k % h) + 1].color)
    THEN PickFrom(arr, h, v, k + 1, data, value)
    ELSE CHOOSE out \in
             {IF r.thrown # NoThrow
              THEN [arr |-> r.arr, thrown |-> r.thrown, value |-> value]
              ELSE PickFrom(r.arr, h, v, k + 1, data, <<k \div h, k % h>>) :
              r \in {PickCamera(arr, h, v, k \div h, k % h)}} : TRUE

\* handlePicking() when readPixels has delivered `data`
HandlePicking(data) ==
    /\ \E r \in {PickFrom(cameraArray, horizontalCamerasCount,
                           verticalCamerasCount, 0, data, picking.value)} :
           /\ cameraArray' = r.arr
           /\ thrown' = r.thrown
           /\ picking' = [data |-> data, value |-> r.value]
    /\ lastCall' = Call("handlePicking", NoName, 0, 0)
    /\ UNCHANGED <<horizontalCamerasCount, verticalCamerasCount, inputs,
                   objVars, rendererVars, spaceVars, uploadVars, tangentVars,
                   pageVars>>

(* ------------------- Renderer: inputs and exportLightField -------------- *)

\* toggleInputs(toggle, inputsToToggle): the given controls when the array
\* has entries, otherwise every input and select element
ToggleInputs(flags, elements, toggle, inputsToToggle) ==
    [c \in DOMAIN flags |->
        IF c \in (IF inputsToToggle # {} THEN inputsToToggle ELSE elements)
        THEN toggle ELSE flags[c]]

\* getDisabledInputs(): the input and select elements that are disabled
GetDisabledInputs(flags, elements) == {c \in elements : flags[c]}

\* onchange of the select of the light's position: toggleSliders("light", ...)
LightPositionChange(value) ==
    /\ loop.started
    /\ ~disabled["lightPositionOptions"]
    /\ lightPosition' = value
    /\ disabled' = [disabled EXCEPT !["lightXPos"] = (value # "free")]
    /\ UNCHANGED <<gridVars, objVars, rendererVars, spaceVars, uploadVars,
                   tangentVars, pickingVars, inputElements, exports, loop,
                   mouse, mainCamera>>

\* the switch on the light's position in renderCameraView: what it raises
\* (this.lightField.selectedCamera.position of null)
LightPositionThrows(arr, h, v, light) ==
    IF light # "stickLightField" THEN NoThrow
    ELSE CHOOSE t \in
             {IF sc.thrown # NoThrow THEN sc.thrown
              ELSE IF sc.cell = <<>> THEN TypeError ELSE NoThrow :
              sc \in {SelectedCamera(arr, h, v)}} : TRUE

\* renderCameraView without the call of setPerspective
RenderLightFieldCameraView_NoPerspective(arr, h, v, row, column, light) ==
    IF LightPositionThrows(arr, h, v, light) # NoThrow
    THEN [arr |-> arr, thrown |-> LightPositionThrows(arr, h, v, light)]
    ELSE [arr |-> arr,
          thrown |-> ViewProjectionMatrixThrows(arr[row + 1][column + 1])]

\* renderCameraView(camera, height) for the grid camera at (row, column):
\* the light's position, camera.createMatrix().setPerspective(...).move(),
\* then camera.getWorldViewProjectionMatrix(this.mesh.matrix)
RenderLightFieldCameraView(arr, h, v, row, column, light) ==
    IF LightPositionThrows(arr, h, v, light) # NoThrow
    THEN [arr |-> arr, thrown |-> LightPositionThrows(arr, h, v, light)]
    ELSE CHOOSE r \in
             {[arr |-> set,
               thrown |-> ViewProjectionMatrixThrows(set[row + 1][column + 1])] :
              set \in {[arr EXCEPT ![row + 1][column + 1].projection = TRUE]}} :
             TRUE

\* an exportLightField call that has taken the disabled inputs and has not
\* yet called iterateCamerasAsync: zipper has no file, fileNumber is 0
NewExport(disabledInputs) ==
    [pc |-> "capturing", it |-> NoIteration, files |-> <<>>, fileNumber |-> 0,
     disabledInputs |-> disabledInputs, error |-> NoThrow]

\* iterateCamerasAsync of an export from its loop tests on: the end of the
\* loops lets exportLightField go on to zipper.generateAsync; a raise of
\* getCamera or of the callback rejects the export; otherwise the callback
\* has rendered the camera and called canvas.toBlob, and the export waits
Capture(ex, it, arr, h, v, light) ==
    CHOOSE out \in
        {IF next.pc = "resolved"
         THEN [ex |-> [ex EXCEPT !.it = next, !.pc = "generating"], arr |-> arr]
         ELSE IF next.pc = "rejected"
         THEN [ex |-> [ex EXCEPT !.it = next, !.pc = "rejected",
                                 !.error = next.error],
               arr |-> arr]
         ELSE CHOOSE o \in
                  {IF r.thrown # NoThrow
                   THEN [ex |-> [ex EXCEPT !.it = [next EXCEPT !.pc = "rejected",
                                                              !.error = r.thrown],
                                           !.pc = "rejected",
                                           !.error = r.thrown],
                         arr |-> r.arr]
                   ELSE [ex |-> [ex EXCEPT !.it = next], arr |-> r.arr] :
                   r \in {RenderLightFieldCameraView(arr, h, v, next.row,
                                                     next.column, light)}} : TRUE :
         next \in {LoopTest(it, arr, h, v)}} : TRUE

\* cancelAnimationFrame(this.animationId)
CancelAnimationFrame(lp) ==
    IF lp.animationId
    THEN [lp EXCEPT !.pending = @ - 1, !.animationId = FALSE]
    ELSE lp

\* this.animationId = requestAnimationFrame(() => this.render())
RequestAnimationFrame(lp) ==
    [lp EXCEPT !.pending = @ + 1, !.animationId = TRUE]

\* onclick of exportLf: exportLightField() up to its first await
ExportLightField ==
    /\ loop.started
    /\ ~disabled["exportLf"]
    /\ Len(exports) < MaxExports
    /\ loop' = CancelAnimationFrame(loop)
    /\ disabled' = ToggleInputs(disabled, inputElements, TRUE, {})
    /\ \E r \in {Capture(NewExport(GetDisabledInputs(disabled, inputElements)),
                          NoIteration, cameraArray, horizontalCamerasCount,
                          verticalCamerasCount, lightPosition)} :
           /\ exports' = Append(exports, r.ex)
           /\ cameraArray' = r.arr
    /\ UNCHANGED <<horizontalCamerasCount, verticalCamerasCount, thrown,
                   lastCall, inputs, objVars, rendererVars, spaceVars,
                   uploadVars, tangentVars, pickingVars, inputElements, mouse,
                   mainCamera, lightPosition>>

\* the callback of canvas.toBlob in export k: zipper.file("IMG_" +
\* fileNumber + ".png", blob), fileNumber++, resolve(); then
\* iterateCamerasAsync goes on after its await with column++
ToBlobCallback(k) ==
    /\ k \in DOMAIN exports
    /\ exports[k].pc = "capturing"
    /\ \E r \in {Capture([exports[k] EXCEPT
                              !.files = Append(@, [name |-> exports[k].fileNumber,
                                                   camera |-> <<exports[k].it.row,
                                                                exports[k].it.column>>]),
                              !.fileNumber = @ + 1],
                          [exports[k].it EXCEPT !.column = @ + 1,
                                                !.inProgress = @ - 1],
                          cameraArray, horizontalCamerasCount,
                          verticalCamerasCount, lightPosition)} :
           /\ exports' = [exports EXCEPT ![k] = r.ex]
           /\ cameraArray' = r.arr
    /\ UNCHANGED <<horizontalCamerasCount, verticalCamerasCount, thrown,
                   lastCall, inputs, objVars, rendererVars, spaceVars,
                   uploadVars, tangentVars, pickingVars, disabled,
                   inputElements, loop, mouse, mainCamera, lightPosition>>

\* the then-callback of zipper.generateAsync in export k: saveAs,
\* toggleInputs(false), toggleInputs(true, disabledInputs), and the render
\* loop is requested again
GenerateAsyncThen(k) ==
    /\ k \in DOMAIN exports
    /\ exports[k].pc = "generating"
    /\ exports' = [exports EXCEPT ![k].pc = "finished"]
    /\ disabled' = ToggleInputs(ToggleInputs(disabled, inputElements, FALSE, {}),
                                inputElements, TRUE, exports[k].disabledInputs)
    /\ loop' = RequestAnimationFrame(loop)
    /\ UNCHANGED <<gridVars, objVars, rendererVars, spaceVars, uploadVars,
                   tangentVars, pickingVars, inputElements, mouse, mainCamera,
                   lightPosition>>

(* ------------------- Renderer: render loop and mouse -------------------- *)

\* mousedown on the canvas: the coordinates are stored and onmousemove is set
MouseDown ==
    /\ loop.started
    /\ mouse.down < MaxClicks
    /\ mouse' = [mouse EXCEPT !.xy = mouse.down + 1, !.down = @ + 1,
                              !.onmousemove = TRUE, !.moved = FALSE,
                              !.up = FALSE]
    /\ UNCHANGED <<gridVars, objVars, rendererVars, spaceVars, uploadVars,
                   tangentVars, pickingVars, disabled, inputElements, exports,
                   loop, mainCamera, lightPosition>>

\* canvas.onmousemove: the coordinates are set to null (the camera turns)
MouseMove ==
    /\ mouse.onmousemove
    /\ mouse' = [mouse EXCEPT !.xy = 0, !.moved = TRUE]
    /\ UNCHANGED <<gridVars, objVars, rendererVars, spaceVars, uploadVars,
                   tangentVars, pickingVars, disabled, inputElements, exports,
                   loop, mainCamera, lightPosition>>

\* mouseup on the canvas after a mousedown: the coordinates and onmousemove
\* are set to null
MouseUp ==
    /\ mouse.onmousemove
    /\ mouse' = [mouse EXCEPT !.xy = 0, !.onmousemove = FALSE, !.up = TRUE]
    /\ UNCHANGED <<gridVars, objVars, rendererVars, spaceVars, uploadVars,
                   tangentVars, pickingVars, disabled, inputElements, exports,
                   loop, mainCamera, lightPosition>>

\* if (this.mouseX !== null && this.mouseY !== null)
PickingBranch(m) == m.xy # 0

\* renderCameraView(this.camera, height): the light's position,
\* setPerspective on the main camera, iterateCameras with the callback that
\* reads this.camera's matrix for each grid camera, handlePicking when the
\* mouse coordinates are set (readPixels delivers data), iterateCameras
\* again, then the shared uniforms
RenderMainView(arr, h, v, light, m, data, value) ==
    IF LightPositionThrows(arr, h, v, light) # NoThrow
    THEN [arr |-> arr, projection |-> mainCamera.projection, picked |-> FALSE,
          value |-> value, thrown |-> LightPositionThrows(arr, h, v, light)]
    ELSE CHOOSE out \in
        {IF it.visited # <<>> /\ ViewProjectionMatrixThrows(cam) # NoThrow
         THEN [arr |-> arr, projection |-> TRUE, picked |-> FALSE,
               value |-> value, thrown |-> ViewProjectionMatrixThrows(cam)]
         ELSE IF it.thrown # NoThrow
         THEN [arr |-> arr, projection |-> TRUE, picked |-> FALSE,
               value |-> value, thrown |-> it.thrown]
         ELSE IF ~PickingBranch(m)
         THEN [arr |-> arr, projection |-> TRUE, picked |-> FALSE,
               value |-> value, thrown |-> ViewProjectionMatrixThrows(cam)]
         ELSE CHOOSE o \in
                  {[arr |-> r.arr, projection |-> TRUE, picked |-> TRUE,
                    value |-> r.value,
                    thrown |-> IF r.thrown # NoThrow THEN r.thrown
                               ELSE ViewProjectionMatrixThrows(cam)] :
                   r \in {PickFrom(arr, h, v, 0, data, value)}} : TRUE :
         it \in {IterateCameras(arr, h, v)},
         cam \in {[mainCamera EXCEPT !.projection = TRUE]}} : TRUE

\* the lower half of render(): the view of the selected grid camera, when
\* there is one
RenderSelectedView(arr, h, v, light) ==
    CHOOSE out \in
        {IF sc.thrown # NoThrow THEN [arr |-> arr, thrown |-> sc.thrown]
         ELSE IF sc.cell = <<>> THEN [arr |-> arr, thrown |-> NoThrow]
         ELSE RenderLightFieldCameraView(arr, h, v, sc.cell[1], sc.cell[2],
                                         light) :
         sc \in {SelectedCamera(arr, h, v)}} : TRUE

\* the render() callbacks that can run: the call main makes after
\* initInputs, the frame this.animationId names, a frame it does not name
Frames(lp) ==
    {frame \in {"main", "animationId", "other"} :
        CASE frame = "main" -> inputs.ready /\ ~lp.started
          [] frame = "animationId" -> lp.animationId
          [] frame = "other" ->
                 lp.pending > (IF lp.animationId THEN 1 ELSE 0)}

\* the loop once the callback has been taken from the pending ones
FrameTaken(lp, frame) ==
    CASE frame = "main" -> [lp EXCEPT !.started = TRUE]
      [] frame = "animationId" -> [lp EXCEPT !.pending = @ - 1,
                                             !.animationId = FALSE]
      [] frame = "other" -> [lp EXCEPT !.pending = @ - 1]

\* render(): the main view, the selected camera's view, and the next frame
\* is requested; a raise ends render() before requestAnimationFrame
Render(frame, data) ==
    /\ frame \in Frames(loop)
    /\ \E top \in {RenderMainView(cameraArray, horizontalCamerasCount,
                                   verticalCamerasCount, lightPosition, mouse,
                                   data, picking.value)} :
       \E low \in {IF top.thrown # NoThrow
                   THEN [arr |-> top.arr, thrown |-> top.thrown]
                   ELSE RenderSelectedView(top.arr, horizontalCamerasCount,
                                           verticalCamerasCount,
                                           lightPosition)} :
           /\ cameraArray' = low.arr
           /\ thrown' = low.thrown
           /\ mainCamera' = [mainCamera EXCEPT !.projection = top.projection]
           /\ picking' = IF top.picked
                         THEN [data |-> data, value |-> top.value]
                         ELSE picking
           /\ mouse' = IF top.picked
                       THEN [mouse EXCEPT !.handled = @ \cup {mouse.xy}]
                       ELSE mouse
           /\ loop' = IF low.thrown # NoThrow THEN FrameTaken(loop, frame)
                      ELSE RequestAnimationFrame(FrameTaken(loop, frame))
    /\ lastCall' = Call("render", NoName, 0, 0)
    /\ UNCHANGED <<horizontalCamerasCount, verticalCamerasCount, inputs, objVars,
                   rendererVars, spaceVars, uploadVars, tangentVars, disabled,
                   inputElements, exports, lightPosition>>

(* ----------------------- Mesh.#generateTangents ------------------------ *)

\* Entries of the position and texcoord arrays are integers, or NaN (what
\* parseFloat makes of a field that is no number, and what a typed array
\* makes of undefined).  An entry of the tangent array is n / sqrt(d),
\* kept as the pair <<n, d>>; <<0, 0>> is NaN.
NaN == -1000
NaNFloat == <<0, 0>>

Subtract(a, b) == IF a = NaN \/ b = NaN THEN NaN ELSE a - b
Multiply(a, b) == IF a = NaN \/ b = NaN THEN NaN ELSE a * b

\* vecN.fromValues(...array.slice(from, from + count)): entries past the
\* end of the array are undefined and become NaN
FromSlice(array, from, count) ==
    [k \in 1..count |-> IF from + k <= Len(array) THEN array[from + k]
                        ELSE NaN]

\* vec3.subtract / vec2.subtract
VecSubtract(a, b) == [k \in DOMAIN a |-> Subtract(a[k], b[k])]

\* vec3.scale
VecScale(a, factor) == [k \in DOMAIN a |-> Multiply(a[k], factor)]

\* duv12.x * duv13.y - duv13.x * duv12.y, whose inverse is f
Determinant(duv12, duv13) ==
    Subtract(Multiply(duv12[1], duv13[2]), Multiply(duv13[1], duv12[2]))

\* Number.isFinite(1.0 / determinant)
InverseIsFinite(determinant) == determinant # NaN /\ determinant # 0

\* vec3.normalize(vec3.scale(v, 1 / determinant)) for a finite inverse: a
\* NaN component makes the squared length NaN and with it every component;
\* the zero vector stays zero
NormalizeScaled(v, determinant) ==
    IF \E k \in 1..3 : v[k] = NaN THEN <<NaNFloat, NaNFloat, NaNFloat>>
    ELSE IF v = <<0, 0, 0>> THEN << <<0, 1>>, <<0, 1>>, <<0, 1>> >>
    ELSE [k \in 1..3 |->
             <<(IF determinant < 0 THEN 0 - v[k] ELSE v[k]),
               v[1] * v[1] + v[2] * v[2] + v[3] * v[3]>>]

\* the constant tangent [1, 0, 0]
ConstantTangent == << <<1, 1>>, <<0, 1>>, <<0, 1>> >>

\* the differences of the loop body for the triangle of the vertices 3i,
\* 3i + 1, 3i + 2
TriangleEdges(position, texcoord, i) ==
    [dp12 |-> VecSubtract(FromSlice(position, (3 * i + 1) * 3, 3),
                          FromSlice(position, (3 * i) * 3, 3)),
     dp13 |-> VecSubtract(FromSlice(position, (3 * i + 2) * 3, 3),
                          FromSlice(position, (3 * i) * 3, 3)),
     duv12 |-> VecSubtract(FromSlice(texcoord, (3 * i + 1) * 2, 2),
                           FromSlice(texcoord, (3 * i) * 2, 2)),
     duv13 |-> VecSubtract(FromSlice(texcoord, (3 * i + 2) * 2, 2),
                           FromSlice(texcoord, (3 * i) * 2, 2))]

\* the loop body without the test of Number.isFinite(f): a zero
\* determinant scales by Infinity and normalizes to NaN
TriangleTangent_NoFallback(position, texcoord, i) ==
    CHOOSE t \in
        {IF e.det = NaN \/ e.det = 0
         THEN <<NaNFloat, NaNFloat, NaNFloat>>
         ELSE NormalizeScaled(
                  VecSubtract(VecScale(e.edges.dp12, e.edges.duv13[2]),
                              VecScale(e.edges.dp13, e.edges.duv12[2])),
                  e.det) :
         e \in {[edges |-> d, det |-> Determinant(d.duv12, d.duv13)] :
                    d \in {TriangleEdges(position, texcoord, i)}}} : TRUE

\* the loop body: the tangent of triangle i
TriangleTangent(position, texcoord, i) ==
    CHOOSE t \in
        {IF InverseIsFinite(e.det)
         THEN NormalizeScaled(
                  VecSubtract(VecScale(e.edges.dp12, e.edges.duv13[2]),
                              VecScale(e.edges.dp13, e.edges.duv12[2])),
                  e.det)
         ELSE ConstantTangent :
         e \in {[edges |-> d, det |-> Determinant(d.duv12, d.duv13)] :
                    d \in {TriangleEdges(position, texcoord, i)}}} : TRUE

\* the loop for (i = 0; i < numFaces; i++) from triangle i on, with
\* numFaces = position.length / 3 / 3: tangents.push(...tangent,
\* ...tangent, ...tangent)
RECURSIVE TangentsFrom(_, _, _)
TangentsFrom(position, texcoord, i) ==
    IF 9 * i >= Len(position) THEN <<>>
    ELSE CHOOSE out \in
             {t \o t \o t \o TangentsFrom(position, texcoord, i + 1) :
              t \in {TriangleTangent(position, texcoord, i)}} : TRUE

\* #generateTangents(position, texcoord)
GenerateTangents(position, texcoord) ==
    /\ tangentCall' = [position |-> position, texcoord |-> texcoord,
                       tangents |-> TangentsFrom(position, texcoord, 0)]
    /\ UNCHANGED <<gridVars, objVars, rendererVars, spaceVars, uploadVars,
                   pickingVars, pageVars>>

(* --------------------- Renderer: uploads and frames -------------------- *)

\* a handler that assigns Renderer.mesh and Renderer.objBufferInfo is under
\* way: the constructor, or the Promise.all callback of an upload, after
\* its init() and before its getBufferInfo or the raise that ends it
HandlerRunning == objThrown = NoThrow /\ upload.buffer # upload.parse

\* parseObj is in its loop over the lines
Parsing == HandlerRunning /\ lastLine.keyword # "eof"

\* the #newGeometry() call of init(): #geometry is what the last parse left;
\* once that parse has removed the empty arrays from the Geometries of its
\* list, data.position of an empty Geometry is undefined
InitNewGeometry(geoms, geom, filtered) ==
    IF geom \in {0, LeftOver} THEN [thrown |-> NoThrow, geom |-> geom]
    ELSE IF Len(geoms[geom].data[1]) > 0 THEN [thrown |-> NoThrow, geom |-> 0]
    ELSE IF filtered THEN [thrown |-> TypeError, geom |-> geom]
    ELSE [thrown |-> NoThrow, geom |-> LeftOver]

\* the Promise.all callback of an upload with an OBJ file, up to the loop
\* of parseObj: this.objParser.init(), which resets the pools and
\* #webglVertexData, calls #newGeometry() and then resets the rest
ObjParserInit ==
    /\ objPositions' = << <<0, 0, 0>> >>
    /\ objTexcoords' = << <<0, 0>> >>
    /\ objNormals' = << <<0, 0, 0>> >>
    /\ objColors' = << <<0, 0, 0>> >>
    /\ \E r \in {InitNewGeometry(geometries, geometry,
                                  lastLine.keyword = "eof")} :
           /\ objThrown' = r.thrown
           /\ geometry' = r.geom
           /\ IF r.thrown # NoThrow
              THEN UNCHANGED <<geometries, materialLibs, objMaterial,
                               materialObject, materials, objObject, lastLine>>
              ELSE /\ geometries' = <<>>
                   /\ materialLibs' = <<>>
                   /\ objMaterial' = "default"
                   /\ materialObject' = NoName
                   /\ materials' = [name \in {"default"} |-> DefaultMaterial]
                   /\ objObject' = "default"
                   /\ lastLine' = Line("", "", NoFace)
    /\ UNCHANGED <<textures, mesh, gridVars, rendererVars, spaceVars, tangentVars, pickingVars, pageVars>>

\* the Promise.all callback of an upload with an OBJ file, up to the loop
\* of parseObj
HandleFileUpload ==
    /\ upload.buffer >= 0
    /\ ~HandlerRunning
    /\ upload.parse < MaxUploads
    /\ ObjParserInit
    /\ upload' = [upload EXCEPT !.parse = @ + 1]

\* no alert() of handleFileUpload
NoAlert == ""

\* the extension of a file name, in lower case
FileTypes == {"obj", "mtl", "png", "txt"}

\* the number of files of a type among the first n files
RECURSIVE CountFiles(_, _, _)
CountFiles(files, type, n) ==
    IF n = 0 THEN 0
    ELSE CountFiles(files, type, n - 1) + (IF files[n] = type THEN 1 ELSE 0)

\* the executor of the promise of the n-th file with more than two files
\* of a type as its test
FilePromise_MoreThanTwo(files, n) ==
    IF files[n] \in {"obj", "mtl"}
    THEN IF CountFiles(files, "mtl", n) > 2 \/ CountFiles(files, "obj", n) > 2
         THEN "rejected" ELSE "fulfilled"
    ELSE IF files[n] = "png" THEN "fulfilled"
    ELSE "none"

\* the promise handleFileUpload makes for the n-th file: its executor runs
\* inside the loop, with objFiles and mtlFiles counted up to this file; a
\* file that is neither text nor texture gets no promise
FilePromise(files, n) ==
    IF files[n] \in {"obj", "mtl"}
    THEN IF CountFiles(files, "mtl", n) >= 2 \/ CountFiles(files, "obj", n) >= 2
         THEN "rejected" ELSE "fulfilled"
    ELSE IF files[n] = "png" THEN "fulfilled"
    ELSE "none"

\* Promise.all(filePromises)
PromiseAll(files) ==
    IF \E n \in 1..Len(files) : FilePromise(files, n) = "rejected"
    THEN "rejected" ELSE "fulfilled"

\* handleFileUpload(files) with the files read without an error: no files,
\* nothing happens; a rejected promise, alert(reason); no OBJ file, the
\* other alert; otherwise the callback of Promise.all calls
\* this.objParser.init() and goes on to parseObj
HandleFiles(files) ==
    /\ upload.buffer >= 0
    /\ ~HandlerRunning
    /\ IF Len(files) = 0
       THEN UNCHANGED vars
       ELSE IF PromiseAll(files) = "rejected"
       THEN /\ upload' = [upload EXCEPT !.batch = files, !.alert = "reason"]
            /\ UNCHANGED <<gridVars, objVars, rendererVars, spaceVars,
                           tangentVars, pickingVars, pageVars>>
       ELSE IF CountFiles(files, "obj", Len(files)) = 0
       THEN /\ upload' = [upload EXCEPT !.batch = files, !.alert = "noObj"]
            /\ UNCHANGED <<gridVars, objVars, rendererVars, spaceVars,
                           tangentVars, pickingVars, pageVars>>
       ELSE /\ upload.parse < MaxUploads
            /\ ObjParserInit
            /\ upload' = [upload EXCEPT !.parse = @ + 1, !.batch = files,
                                        !.alert = NoAlert]

\* a frame is rendered between two callbacks, never inside one: the
\* handlers run to completion before requestAnimationFrame's callback
FrameAllowed_MidHandler == upload.mesh >= 0

FrameAllowed == upload.buffer >= 0 /\ ~HandlerRunning

\* render(): it reads this.mesh and this.objBufferInfo
RenderFrame ==
    /\ FrameAllowed
    /\ upload' = [upload EXCEPT !.frame = <<upload.mesh, upload.buffer>>]
    /\ UNCHANGED <<gridVars, objVars, rendererVars, spaceVars, tangentVars, pickingVars, pageVars>>

Faces ==
    {face \in [n : 0..MaxFaceVerts, form : Forms, neg : BOOLEAN] :
        face.n < 3 => (face.form = "p" /\ ~face.neg)}

\* parseObj reading one line after the other
NextObj ==
    \/ \E kind \in {"plain", "colored"} : LineV(kind)
    \/ LineVn
    \/ \E arity \in {2, 3} : LineVt(arity)
    \/ \E face \in Faces : FirstGeometryTriangles < MaxTriangles /\ LineF(face)

\* texts a user types into a count input: "0", "2.5" and "17"
TypedCounts == {0, 5, 2 * maxCameras + 2}

\* numbers a user types into a spacing input, in tenths: "0.3" and "1"
TypedSpaces == {3, 10}

\* the spacing input confirmed with its initial text, "0.7"
RetypedSpaces == {DefaultCameraSpace}

GridInit ==
    /\ cameraArray = <<>>
    /\ horizontalCamerasCount = DefaultCamerasCount
    /\ verticalCamerasCount = DefaultCamerasCount
    /\ horizontalCameraSpace = DefaultCameraSpace
    /\ verticalCameraSpace = DefaultCameraSpace
    /\ inputs = [ready |-> FALSE,
                 horizontalCamerasCount |-> 0, verticalCamerasCount |-> 0]
    /\ thrown = NoThrow
    /\ lastCall = Call("new", NoName, 0, 0)

\* the renderer before a text is parsed and before an export
NoFrame == <<>>

RendererInit ==
    /\ objBufferInfo = <<>>
    /\ iteration = NoIteration
    /\ calls = <<>>
    /\ upload = [parse |-> 0, mesh |-> -1, buffer |-> -1, frame |-> NoFrame,
                 batch |-> <<>>, alert |-> NoAlert]
    /\ tangentCall = [position |-> <<>>, texcoord |-> <<>>, tangents |-> <<>>]
    /\ picking = [data |-> <<>>, value |-> <<>>]

\* the controls of the page the model follows: a slider of the light, a
\* number input of the light field, the select of the light's position, and
\* the control the export is started with
Controls == {"lightXPos", "lfHorCamNumber", "lightPositionOptions", "exportLf"}

\* the controls initInputs treats as input and select elements
TaggedControls == {"lightXPos", "lfHorCamNumber", "lightPositionOptions"}

\* no exportLightField call has been made, render() has not been called
NoLoop == [started |-> FALSE, pending |-> 0, animationId |-> FALSE]

\* no mousedown yet: mouseX and mouseY are null (xy 0), onmousemove is
\* null; down counts the mousedown events and stands for the coordinates
\* of the last one, moved and up tell what followed it, handled holds the
\* coordinates handlePicking has run with
NoMouse == [xy |-> 0, onmousemove |-> FALSE, down |-> 0, moved |-> FALSE,
            up |-> FALSE, handled |-> {}]

\* the page when the script starts, with the given controls among its input
\* and select elements
PageInit(tagged) ==
    /\ disabled = [c \in Controls |-> FALSE]
    /\ inputElements = tagged
    /\ exports = <<>>
    /\ loop = NoLoop
    /\ mouse = NoMouse
    /\ mainCamera = [projection |-> FALSE]
    /\ lightPosition = "stickCamera"

Init == GridInit /\ ObjInit /\ RendererInit /\ PageInit(TaggedControls)

\* input.onchange of the camera selection box: the chosen option names an
\* existing camera of the grid
SelectChange(row, column) ==
    /\ inputs.ready
    /\ row < Len(cameraArray)
    /\ column < Len(cameraArray[row + 1])
    /\ \E r \in {SetSelectedCameraResult(cameraArray, horizontalCamerasCount,
                                         verticalCamerasCount, row, column)} :
           /\ cameraArray' = r.arr
           /\ thrown' = r.thrown
    /\ lastCall' = Call("selectChange", NoName, row, column)
    /\ UNCHANGED <<horizontalCamerasCount, verticalCamerasCount, inputs,
                   objVars, rendererVars, spaceVars, uploadVars, tangentVars, pickingVars, pageVars>>

\* the grid driven by direct calls of its two mutating methods, with valid
\* counts and with row / column indices inside and outside the grid
Next ==
    \/ \E cols \in 1..MaxCount, rows \in 1..MaxCount : InitCameras(cols, rows)
    \/ \E row \in 0..MaxCount, column \in 0..MaxCount :
           SetSelectedCamera(row, column)

Spec == Init /\ [][Next]_vars

\* the grid driven by the renderer: input initialisation, the change
\* handlers of the count, spacing and selection inputs, and direct
\* re-initialisation
NextUI ==
    \/ InitInputs
    \/ \E name \in CountNames, text \in TypedCounts : CountChange(name, text)
    \/ \E name \in SpaceNames, value \in RetypedSpaces :
           SpaceChange(name, value)
    \/ \E row \in 0..(MaxSelect - 1), column \in 0..(MaxSelect - 1) :
           SelectChange(row, column)
    \/ \E cols \in 1..MaxDirect, rows \in 1..MaxDirect : InitCameras(cols, rows)

SpecUI == Init /\ [][NextUI]_vars

\* the number inputs alone: their initialisation, then count and spacing
\* change events
NextNumbers ==
    \/ InitInputs
    \/ \E name \in CountNames, text \in TypedCounts : CountChange(name, text)
    \/ \E name \in SpaceNames, value \in TypedSpaces :
           SpaceChange(name, value)

SpecNumbers == Init /\ [][NextNumbers]_vars


\* the cameras of the grid: creation by initCameras, setPerspective, and
\* the two reads of the view-projection matrix
NextCamera ==
    \/ \E cols \in 1..MaxDirect, rows \in 1..MaxDirect : InitCameras(cols, rows)
    \/ \E row \in 0..(MaxDirect - 1), column \in 0..(MaxDirect - 1) :
           \/ SetPerspective(row, column)
           \/ ViewProjectionMatrix(row, column)
           \/ GetWorldViewProjectionMatrix(row, column)

SpecCamera == Init /\ [][NextCamera]_vars

\* grids of every size, selections inside and outside the grid, and
\* iterateCameras with a recording callback
NextIterate ==
    \/ \E cols \in 1..MaxCount, rows \in 1..MaxCount : InitCameras(cols, rows)
    \/ \E row \in 0..MaxCount, column \in 0..MaxCount :
           SetSelectedCamera(row, column)
    \/ IterateCamerasCall

SpecIterate == Init /\ [][NextIterate]_vars

\* the grid re-created directly and by the spacing inputs, with a camera of
\* the first column selected and the first camera given a projection in
\* between
NextPositions ==
    \/ InitInputs
    \/ \E cols \in 1..MaxDirect, rows \in 1..MaxDirect : InitCameras(cols, rows)
    \/ \E name \in SpaceNames, value \in TypedSpaces :
           SpaceChange(name, value)
    \/ \E row \in 0..(MaxSelect - 1) : SetSelectedCamera(row, 0)
    \/ SetPerspective(0, 0)

SpecPositions == Init /\ [][NextPositions]_vars

\* the pixel under the mouse: the color of a camera of the grid, the color
\* the picking texture is cleared to, or the color a camera had before the
\* last recoloring
CameraColors ==
    {cameraArray[r][c].color : r \in DOMAIN cameraArray,
                               c \in 1..(IF cameraArray = <<>> THEN 0 ELSE Len(cameraArray[1]))}
Pixels == (CameraColors \cup {<<0, 0, 0, 0>>, picking.data}) \ {<<>>}

\* grids built and selected by direct calls, failing selections included,
\* and clicks into the picking texture
NextPicking ==
    \/ \E cols \in 1..MaxPicking, rows \in 1..MaxPicking :
           InitCameras(cols, rows)
    \/ \E row \in 0..MaxPicking, column \in 0..MaxPicking :
           SetSelectedCamera(row, column)
    \/ \E data \in Pixels : HandlePicking(data)

SpecPicking == Init /\ [][NextPicking]_vars

\* the values of the select of the light's position
LightPositions == {"stickCamera", "stickLightField", "free"}

\* the texts typed into the count inputs of the page: "0" and "2.5"
PageCounts == {0, 5}

\* what readPixels can deliver to the handlePicking of a frame
FramePixels == IF PickingBranch(mouse) THEN Pixels ELSE {picking.data}

\* the page with the export control an input element or another element
InitPage ==
    /\ GridInit /\ ObjInit /\ RendererInit
    /\ \E tagged \in {TaggedControls, Controls} : PageInit(tagged)

\* an export between the call of exportLightField and the then-callback of
\* zipper.generateAsync
ExportInProgress ==
    \E k \in DOMAIN exports : exports[k].pc \in {"capturing", "generating"}

\* the page: main's initInputs().render(), then the events of the count
\* inputs, the light's select and the export control, the callbacks of the
\* exports, and animation frames
NextExport ==
    \/ InitInputs
    \/ \E name \in CountNames, text \in PageCounts :
           /\ loop.started
           /\ ~disabled["lfHorCamNumber"]
           /\ CountChange(name, text)
    \/ \E value \in LightPositions : LightPositionChange(value)
    \/ /\ horizontalCamerasCount * verticalCamerasCount <= MaxExportCameras
       /\ ExportLightField
    \/ \E k \in 1..MaxExports : ToBlobCallback(k)
    \/ \E k \in 1..MaxExports : GenerateAsyncThen(k)
    \/ \E frame \in {"main", "animationId", "other"}, data \in FramePixels :
           Render(frame, data)

SpecExport == InitPage /\ [][NextExport]_vars

\* the page with exports of every grid the count inputs can make: main's
\* initInputs().render(), the events of the count inputs and of the export
\* control, the callbacks of the exports, and animation frames
NextArchive ==
    \/ InitInputs
    \/ \E name \in CountNames, text \in PageCounts :
           /\ loop.started
           /\ ~disabled["lfHorCamNumber"]
           /\ CountChange(name, text)
    \/ /\ ExportInProgress
          => horizontalCamerasCount * verticalCamerasCount
                 <= MaxConcurrentCameras
       /\ ExportLightField
    \/ \E k \in 1..MaxExports : ToBlobCallback(k)
    \/ \E k \in 1..MaxExports : GenerateAsyncThen(k)
    \/ \E frame \in {"main", "animationId"} : Render(frame, picking.data)

SpecArchive == InitPage /\ [][NextArchive]_vars

\* the page: main's initInputs().render(), then the events of the count
\* inputs and of the mouse on the canvas, and animation frames
NextMouse ==
    \/ InitInputs
    \/ \E name \in CountNames, text \in PageCounts :
           loop.started /\ CountChange(name, text)
    \/ /\ horizontalCamerasCount * verticalCamerasCount <= MaxExportCameras
       /\ MouseDown
    \/ MouseMove
    \/ MouseUp
    \/ \E frame \in {"main", "animationId"}, data \in FramePixels :
           Render(frame, data)

SpecMouse == Init /\ [][NextMouse]_vars

\* the page with everything that renders a camera or makes, selects or
\* picks one: main's initInputs().render(), the count inputs, the camera
\* selection box (a select element, disabled and enabled together with the
\* light's select), the light's select, the mouse pressed on the canvas,
\* one export at a time, and animation frames
NextPerspective ==
    \/ InitInputs
    \/ \E name \in CountNames, text \in PageCounts :
           /\ loop.started
           /\ ~disabled["lfHorCamNumber"]
           /\ CountChange(name, text)
    \/ \E row \in 0..(MaxSelect - 1), column \in 0..(MaxSelect - 1) :
           /\ loop.started
           /\ ~disabled["lightPositionOptions"]
           /\ horizontalCamerasCount * verticalCamerasCount
                  <= MaxExportCameras
           /\ SelectChange(row, column)
    \/ \E value \in LightPositions : LightPositionChange(value)
    \/ /\ horizontalCamerasCount * verticalCamerasCount <= MaxExportCameras
       /\ MouseDown
    \/ /\ horizontalCamerasCount * verticalCamerasCount <= MaxExportCameras
       /\ exports = <<>>
       /\ ExportLightField
    \/ \E k \in 1..MaxExports : ToBlobCallback(k)
    \/ \E k \in 1..MaxExports : GenerateAsyncThen(k)
    \/ \E frame \in {"main", "animationId"}, data \in FramePixels :
           Render(frame, data)

SpecPerspective == InitPage /\ [][NextPerspective]_vars

\* exports of the light field: the grid and the selection change while no
\* iteration runs (exportLightField cancels the animation frame and
\* disables all inputs before it iterates)
NextAsync ==
    \/ \E cols \in 1..MaxDirect, rows \in 1..MaxDirect :
           /\ iteration.pc \in {"idle", "resolved", "rejected"}
           /\ InitCameras(cols, rows)
    \/ \E row \in 0..(MaxDirect - 1), column \in 0..(MaxDirect - 1) :
           /\ iteration.pc \in {"idle", "resolved", "rejected"}
           /\ SetSelectedCamera(row, column)
    \/ IterateCamerasAsync
    \/ CallbackResolve
    \/ Resume

SpecAsync == Init /\ [][NextAsync]_vars

SpecObj == Init /\ [][NextObj]_vars

\* the lines that fill the pools
NextPools ==
    \/ \E kind \in {"plain", "colored"} : LineV(kind)
    \/ LineVn
    \/ \E arity \in 1..3 : LineVt(arity)

SpecPools == Init /\ [][NextPools]_vars


\* triangles held by all Geometries
RECURSIVE TotalTriangles(_)
TotalTriangles(geoms) ==
    IF geoms = <<>> THEN 0
    ELSE Len(Head(geoms).data[1]) \div 9 + TotalTriangles(Tail(geoms))

\* the face lines of a whole parse: two or three tokens, without or with a
\* texcoord sub-index, and the triangle of the three newest pool entries
ParseFaces ==
    {face \in Faces : /\ face.n \in {2, 3}
                      /\ face.form \in {"p", "p/t"}
                      /\ face.neg => (face.n = 3 /\ face.form = "p")}

\* one whole parseObj: geometry lines, object names, unknown keywords, and
\* the end of the text
NextParse ==
    \/ mesh.state = "none" /\ LineV("plain")
    \/ \E arity \in 1..3 : mesh.state = "none" /\ LineVt(arity)
    \/ \E face \in ParseFaces :
           /\ mesh.state = "none"
           /\ TotalTriangles(geometries) < MaxFaces
           /\ LineF(face)
    \/ mesh.state = "none" /\ LineO("o")
    \/ mesh.state = "none" /\ LineOther("s")
    \/ EndParse({})

SpecParse == Init /\ [][NextParse]_vars

\* a parse whose faces are grouped by usemtl, o and mtllib lines
NextGroup ==
    \/ mesh.state = "none" /\ LineV("plain")
    \/ \E face \in {f \in ParseFaces : f.n = 3 /\ f.form = "p" /\ ~f.neg} :
           /\ mesh.state = "none"
           /\ TotalTriangles(geometries) < MaxFaces
           /\ LineF(face)
    \/ mesh.state = "none" /\ LineUsemtl("m")
    \/ mesh.state = "none" /\ LineO("o")
    \/ mesh.state = "none" /\ Len(materialLibs) < MaxLibs
                           /\ LineMtllib("lib.mtl")
    \/ EndParse({})

SpecGroup == Init /\ [][NextGroup]_vars

\* the names of usemtl and o lines
MaterialNames == {"a", "b"}
ObjectNames == {"o"}

\* face lines of two and of three vertices
NamesFaces == {f \in ParseFaces : f.form = "p" /\ ~f.neg}

\* a parse in which usemtl, o and mtllib lines alternate with face lines of
\* two and of three vertices; the v lines come first
NextNames ==
    \/ lastLine.keyword \in {"", "v"} /\ LineV("plain")
    \/ \E face \in NamesFaces :
           /\ TotalTriangles(geometries) < MaxFaces
           /\ LineF(face)
    \/ \E name \in MaterialNames : LineUsemtl(name)
    \/ \E name \in ObjectNames : LineO(name)
    \/ Len(materialLibs) < MaxLibs /\ LineMtllib("lib.mtl")

SpecNames == Init /\ [][NextNames]_vars

\* a parse of plain and colored v lines and of faces of three position
\* indices, counted from the start or from the end of the pool: f 1 2 3,
\* f -1 -2 -3, f 1 1 1 and f -1 -1 -1
NextVertexColors ==
    \/ \E kind \in {"plain", "colored"} : LineV(kind)
    \/ \E face \in [n : {3}, form : {"p", "first"}, neg : BOOLEAN] :
           /\ TotalTriangles(geometries) < MaxFaces
           /\ LineF(face)

SpecVertexColors == Init /\ [][NextVertexColors]_vars

\* the faces of an uploaded file: f 1 2 and f 1 2 3
UploadFaces == {f \in ParseFaces : f.n \in {2, 3} /\ f.form = "p" /\ ~f.neg}

\* the constructor's parse followed by uploads, each a parse of its own,
\* with frames rendered in between
NextUpload ==
    \/ HandleFileUpload
    \/ Parsing /\ LineV("plain")
    \/ \E face \in UploadFaces :
           /\ Parsing
           /\ TotalTriangles(geometries) < MaxTriangles
           /\ LineF(face)
    \/ Parsing /\ LineUsemtl("m")
    \/ Parsing /\ EndParse({})
    \/ GetBufferInfo
    \/ RenderFrame

SpecUpload == Init /\ [][NextUpload]_vars

\* the batches of files a user uploads: up to MaxBatch files
Batches == UNION {[1..n -> FileTypes] : n \in 0..MaxBatch}

\* the constructor's parse followed by uploads of batches of files, with
\* the parse of the batches that have one, and frames in between
NextFiles ==
    \/ \E files \in Batches : HandleFiles(files)
    \/ Parsing /\ LineV("plain")
    \/ \E face \in UploadFaces :
           /\ Parsing
           /\ TotalTriangles(geometries) < MaxTriangles
           /\ LineF(face)
    \/ Parsing /\ EndParse({})
    \/ GetBufferInfo
    \/ RenderFrame

SpecFiles == Init /\ [][NextFiles]_vars

\* the three vertices of a triangle as #addVertex pushes them: a triangle
\* in the xy plane, a triangle of three equal points, one with a
\* coordinate that is no number, and one in the xz plane
PositionTriangles ==
    {<<0, 0, 0, 1, 0, 0, 0, 1, 0>>, <<0, 0, 0, 0, 0, 0, 0, 0, 0>>,
     <<NaN, 0, 0, 1, 0, 0, 0, 1, 0>>, <<0, 0, 0, 2, 0, 0, 0, 0, 3>>}

\* the texcoords of a triangle: of determinant 1, three equal points,
\* three points on a line, of determinant -1, and those of a face without
\* texcoord sub-indices
TexcoordTriangles ==
    {<<0, 0, 1, 0, 0, 1>>, <<0, 0, 0, 0, 0, 0>>, <<0, 0, 1, 1, 2, 2>>,
     <<0, 0, 0, 1, 1, 0>>, <<>>}

\* the concatenations of n members of S
RECURSIVE Concatenations(_, _)
Concatenations(S, n) ==
    IF n = 0 THEN {<<>>}
    ELSE {a \o b : a \in S, b \in Concatenations(S, n - 1)}

\* one call of #generateTangents on the arrays of a Geometry with texcoords
\* and normals
NextTangents ==
    \E n \in 1..MaxTangentTriangles :
      tangentCall.position = <<>> /\
        \E position \in Concatenations(PositionTriangles, n),
           texcoord \in Concatenations(TexcoordTriangles, n) :
            GenerateTangents(position, texcoord)

SpecTangents == Init /\ [][NextTangents]_vars

\* texture files named by map lines and supplied to parseObj
Files == {"a.png", "b.png"}

\* the material lines of a parse and its texture post-pass
NextMtl ==
    \/ \E name \in {"default", "m"} : mesh.state = "none" /\ LineNewmtl(name)
    \/ \E keyword \in MapKeywords, file \in Files :
           mesh.state = "none" /\ LineMap(keyword, file)
    \/ \E supplied \in SUBSET Files : EndParse(supplied)

SpecMtl == Init /\ [][NextMtl]_vars

\* names of newmtl lines, among them the name of the entry init() makes
NewmtlNames == {"default", "a", "b"}

\* numbers of Ns lines
NsValues == {10}

\* the material lines of a parse: newmtl, a map line, an Ns line
NextMaterials ==
    \/ \E name \in NewmtlNames : LineNewmtl(name)
    \/ \E file \in Files : LineMap("map_Kd", file)
    \/ \E value \in NsValues : LineNs(value)

SpecMaterials == Init /\ [][NextMaterials]_vars

\* material names of usemtl lines: one that a newmtl line may define, and
\* one that no newmtl line defines and Object.prototype has
UsemtlNames == {"m", "toString"}

\* a parse with usemtl lines, and the buffers made of its Mesh
NextBuffer ==
    \/ mesh.state = "none" /\ LineV("plain")
    \/ \E face \in {f \in ParseFaces : f.n = 3 /\ f.form = "p" /\ ~f.neg} :
           /\ mesh.state = "none"
           /\ TotalTriangles(geometries) < MaxFaces
           /\ LineF(face)
    \/ \E name \in UsemtlNames : mesh.state = "none" /\ LineUsemtl(name)
    \/ mesh.state = "none" /\ LineNewmtl("m")
    \/ EndParse({})
    \/ GetBufferInfo

SpecBuffer == Init /\ [][NextBuffer]_vars

\* every grid size the renderer admits: one initCameras on the new light
\* field, then one setSelectedCamera of an existing camera
NextColors ==
    \/ \E cols \in minCameras..maxCameras, rows \in minCameras..maxCameras :
           lastCall.op = "new" /\ InitCameras(cols, rows)
    \/ \E row \in 0..(maxCameras - 1), column \in 0..(maxCameras - 1) :
           /\ lastCall.op = "initCameras"
           /\ row < Len(cameraArray)
           /\ column < Len(cameraArray[row + 1])
           /\ SetSelectedCamera(row, column)

SpecColors == Init /\ [][NextColors]_vars

(* ------------------------------ claims -------------------------------- *)

\* the cells (1-based row, column) of the camera array whose flag is set
SelectedCells ==
    {cell \in UNION {{<<r, c>> : c \in 1..Len(cameraArray[r])} :
                        r \in 1..Len(cameraArray)} :
        cameraArray[cell[1]][cell[2]].selected}

AllCells ==
    UNION {{<<r, c>> : c \in 1..Len(cameraArray[r])} : r \in 1..Len(cameraArray)}

Rows == Len(cameraArray)
Cols == IF cameraArray = <<>> THEN 0 ELSE Len(cameraArray[1])

\* C1: once initCameras has built a grid, exactly one camera is selected in
\* every later state, whether the calls succeed or fail.
C1_ExactlyOneSelected ==
    cameraArray # <<>> => Cardinality(SelectedCells) = 1

\* C2: in every reachable state of the grid at most one camera has its
\* selected flag set.
C2_AtMostOneSelected == Cardinality(SelectedCells) <= 1

\* a setSelectedCamera that moved the selection away from camera (0, 0)
C2_Witness ==
    /\ lastCall.op = "setSelectedCamera"
    /\ thrown = NoThrow
    /\ Cardinality(SelectedCells) = 1
    /\ <<1, 1>> \notin SelectedCells

\* C3: after every successful setSelectedCamera or initCameras, for every
\* grid size up to maxCameras x maxCameras, the colors of the non-selected
\* cameras are pairwise distinct and none is the reserved selected color.
C3_ColorsDistinct ==
    (lastCall.op \in {"setSelectedCamera", "initCameras"} /\ thrown = NoThrow)
    => LET others == AllCells \ SelectedCells
           colors == {cameraArray[cell[1]][cell[2]].color : cell \in others}
       IN  /\ Cardinality(colors) = Cardinality(others)
           /\ selectedColor \notin colors

\* the largest grid with its last camera selected
C3_Witness ==
    /\ lastCall.op = "setSelectedCamera"
    /\ thrown = NoThrow
    /\ Rows = maxCameras
    /\ Cols = maxCameras
    /\ SelectedCells = {<<maxCameras, maxCameras>>}

\* C4: if camera (r, c) is selected and initCameras(cols2, rows2) is called,
\* the selected camera is afterwards (r, c) when r < rows2 and c < cols2 and
\* (0, 0) otherwise.
C4_SelectionPreserved ==
    [][\A cell \in AllCells :
          (SelectedCells = {cell} /\ lastCall'.op = "initCameras")
          => SelectedCells' =
                {IF cell[1] <= lastCall'.b /\ cell[2] <= lastCall'.a
                 THEN cell ELSE <<1, 1>>}]_vars

\* an initCameras that kept a selection other than camera (0, 0)
C4_Witness ==
    /\ lastCall.op = "initCameras"
    /\ thrown = NoThrow
    /\ Cardinality(SelectedCells) = 1
    /\ <<1, 1>> \notin SelectedCells

\* C5: initCameras with counts >= 1 never lets a camera-index-out-of-range
\* error reach its caller, in any state reachable through the renderer's
\* count / spacing handlers or through direct calls.
C5_IndexErrorNeverEscapes ==
    (lastCall.op \in {"initCameras", "countChange", "spaceChange"})
    => thrown # InvalidCameraIndexException

\* C6: on a grid built by initCameras, setSelectedCamera(row, col) fails
\* with InvalidCameraIndexException whenever the row, the column or both are
\* out of range.
C6_OutOfBoundsIsTyped ==
    (/\ lastCall.op = "setSelectedCamera"
     /\ cameraArray # <<>>
     /\ (lastCall.a >= Rows \/ lastCall.b >= Cols))
    => thrown = InvalidCameraIndexException

\* C7: after every successful setSelectedCamera(r, c) camera (r, c) is the
\* one selected camera (so a different camera selected before no longer
\* is), a camera has the reserved selected color if and only if it is
\* selected, and every other camera carries a color of the counting
\* sequence: alpha 255 and channels that sum to the number of non-selected
\* cameras visited up to it.
C7_SelectionAndColors ==
    (lastCall.op = "setSelectedCamera" /\ thrown = NoThrow)
    => /\ SelectedCells = {<<lastCall.a + 1, lastCall.b + 1>>}
       /\ \A cell \in AllCells :
             LET cam == cameraArray[cell[1]][cell[2]]
                 ordinal == (cell[1] - 1) * Cols + cell[2]
                 selOrdinal == lastCall.a * Cols + lastCall.b + 1
             IN  /\ (cam.color = selectedColor) <=> cam.selected
                 /\ ~cam.selected =>
                       /\ Len(cam.color) = 4
                       /\ cam.color[4] = 255
                       /\ cam.color[1] + cam.color[2] + cam.color[3] =
                             ordinal - (IF selOrdinal < ordinal THEN 1 ELSE 0)

\* a successful setSelectedCamera that moved the selection in a grid of at
\* least two rows and two columns
C7_Witness ==
    /\ lastCall.op = "setSelectedCamera"
    /\ thrown = NoThrow
    /\ Rows >= 2
    /\ Cols >= 2
    /\ SelectedCells = {<<2, 2>>}

\* the data arrays of the Geometry a face line writes to, before the line
\* (empty when the line creates the Geometry) and after it
DataBefore == IF geometry = 0 THEN EmptyData ELSE geometries[geometry].data
DataAfter == geometries'[geometry'].data

\* the vertex tokens of triangles t, t + 1, ... of a fan rooted at token 0
RECURSIVE Fan(_, _)
Fan(tokens, t) ==
    IF t > Len(tokens) - 3 THEN <<>>
    ELSE <<tokens[1], tokens[t + 2], tokens[t + 3]>> \o Fan(tokens, t + 1)

\* the entry sub-index number j (1, 2, 3) of a token names in a pool, when
\* the token has such a sub-index: one entry, or nothing
SubIndexDefined(token, j, pool) ==
    (Len(token) >= j /\ token[j] # <<>>)
    => Defined(pool, ResolveIndex(token[j][1], Len(pool)))

SubIndexEntry(token, j, pool) ==
    IF Len(token) >= j /\ token[j] # <<>>
    THEN pool[ResolveIndex(token[j][1], Len(pool)) + 1]
    ELSE <<>>

\* the entries sub-index j of each vertex names in a pool, concatenated
RECURSIVE Expand(_, _, _)
Expand(vertices, j, pool) ==
    IF vertices = <<>> THEN <<>>
    ELSE SubIndexEntry(Head(vertices), j, pool) \o Expand(Tail(vertices), j, pool)

\* C8: for every face vertex token the first sub-index addresses the
\* position pool, the second the texcoord pool and the third the normal
\* pool, and each resolved entry is appended to the Geometry's array of that
\* attribute; a token p//n appends nothing to the texcoord array.
C8_SubIndexAddressesItsPool ==
    [][(/\ lastLine'.keyword = "f"
        /\ objThrown' = NoThrow
        /\ \A k \in 1..lastLine'.face.n :
              /\ SubIndexDefined(Token(lastLine'.face, k), 1, objPositions)
              /\ SubIndexDefined(Token(lastLine'.face, k), 2, objTexcoords)
              /\ SubIndexDefined(Token(lastLine'.face, k), 3, objNormals))
       => LET vertices == Fan(FaceTokens(lastLine'.face), 0)
          IN  /\ DataAfter[1] = DataBefore[1] \o Expand(vertices, 1, objPositions)
              /\ DataAfter[2] = DataBefore[2] \o Expand(vertices, 2, objTexcoords)
              /\ DataAfter[3] = DataBefore[3] \o Expand(vertices, 3, objNormals)
      ]_vars

\* C9: a face line with N vertex tokens, each resolving to a position
\* record, emits N - 2 triangles when N >= 3 and none when N < 3; triangle t
\* consists of the vertices (token 0, token t + 1, token t + 2) and each
\* triangle adds 9 floats to the Geometry's position array.
C9_FanTriangulation ==
    [][(lastLine'.keyword = "f" /\ objThrown' = NoThrow)
       => LET tokens == FaceTokens(lastLine'.face)
              N == Len(tokens)
              triangles == IF N >= 3 THEN N - 2 ELSE 0
          IN  /\ DataAfter[1] =
                    DataBefore[1] \o Expand(Fan(tokens, 0), 1, objPositions)
              /\ Len(DataAfter[1]) = Len(DataBefore[1]) + 9 * triangles
      ]_vars

\* a quadrilateral face that has been split into two triangles
C9_Witness ==
    /\ lastLine.keyword = "f"
    /\ lastLine.face.n = 4
    /\ objThrown = NoThrow
    /\ geometry # 0
    /\ Len(geometries[geometry].data[1]) = 18

\* the token with every negative sub-index -k replaced by the positive index
\* L - k + 1, L being the number of entries appended so far (the sentinel
\* not counted) to the pool that sub-index is resolved in
PositiveToken(token) ==
    [j \in DOMAIN token |->
        IF token[j] = <<>> THEN <<>>
        ELSE LET i == Cardinality({m \in 1..j : token[m] # <<>>}) - 1
                 L == Len(ObjVertexData(i)) - 1
             IN  IF token[j][1] < 0 THEN <<L + token[j][1] + 1>> ELSE token[j]]

\* every negative sub-index -k of the token has a positive counterpart:
\* k does not exceed the number of entries appended to its pool
HasPositiveIndices(token) ==
    \A j \in DOMAIN token :
        token[j] # <<>> => PositiveToken(token)[j][1] >= 1

C11_ParseCompletes == lastLine.keyword = "eof" => objThrown = NoThrow

\* components of one vertex in the position, texcoord, normal and color
\* array of a Geometry
Components == <<3, 2, 3, 3>>

\* the vertex counts that the present (non-empty) arrays of a Geometry
\* describe
VertexCounts(data) ==
    {Len(data[j]) \div Components[j] : j \in {i \in 1..4 : Len(data[i]) > 0}}

\* C12: at the end of every parse, each present attribute array of every
\* Geometry has a length that is a multiple of its component count
\* (3, 2, 3, 3), and all present arrays of a Geometry describe the same
\* number of vertices.
C12_ArraysConsistent ==
    (lastLine.keyword = "eof" /\ objThrown = NoThrow)
    => \A g \in DOMAIN geometries :
          /\ \A j \in 1..4 : Len(geometries[g].data[j]) % Components[j] = 0
          /\ Cardinality(VertexCounts(geometries[g].data)) <= 1

(* -------------------------- claims on one line -------------------------- *)

\* the fields of the v line just read
VLine == VFields(Len(objPositions), lastLine'.kind)

\* C13: a v line with more than 3 numeric fields appends its first 3
\* fields as one entry to the position pool and the remaining fields as
\* one entry to the color pool; a v line with exactly 3 fields appends one
\* 3-tuple to the position pool and leaves the color pool unchanged; both
\* leave every other pool and the Geometry list unchanged.
C13_VertexLine ==
    [][lastLine'.keyword = "v"
       => /\ objPositions' = Append(objPositions, SubSeq(VLine, 1, 3))
          /\ Len(objPositions'[Len(objPositions')]) = 3
          /\ Len(VLine) > 3
                => objColors' = Append(objColors, SubSeq(VLine, 4, Len(VLine)))
          /\ Len(VLine) = 3 => objColors' = objColors
          /\ UNCHANGED <<objTexcoords, objNormals, geometries, geometry>>
      ]_vars

\* a plain v line, then a v line with six fields: the position pool holds
\* the sentinel and two 3-tuples, the color pool the sentinel and the last
\* three fields of the second line
C13_Witness ==
    /\ lastLine.keyword = "v"
    /\ lastLine.kind = "colored"
    /\ Len(objPositions) = 3
    /\ objPositions[3] = <<20, 21, 22>>
    /\ Len(objColors) = 2
    /\ objColors[2] = <<25, 26, 27>>

\* C14: a vt line grows the texcoord pool by one entry, its two
\* components, if and only if it has exactly 2 components; a vt line with
\* any other number of components leaves the texcoord pool unchanged; all
\* other parser state is unchanged by a vt line.
C14_TexcoordLine ==
    [][lastLine'.keyword = "vt"
       => /\ lastLine'.kind = "two"
                <=> Len(objTexcoords') = Len(objTexcoords) + 1
          /\ lastLine'.kind = "two"
                => objTexcoords' =
                      Append(objTexcoords, VtFields(Len(objTexcoords), 2))
          /\ lastLine'.kind # "two" => objTexcoords' = objTexcoords
          /\ UNCHANGED <<objPositions, objNormals, objColors, geometries,
                         geometry, objThrown, mtlVars>>
      ]_vars

\* a v line has been read and then a vt line with three components: the
\* texcoord pool still holds its sentinel only
C14_Witness ==
    /\ lastLine.keyword = "vt"
    /\ lastLine.kind = "three"
    /\ Len(objPositions) = 2
    /\ objTexcoords = <<<<0, 0>>>>

(* ----------------------- claims on getBufferInfo ------------------------ *)

\* C15: for every Geometry of a parsed Mesh, getBufferInfo pairs it with a
\* material record of the materials table: the entry named by the
\* Geometry's material name when such an entry exists, otherwise the entry
\* named default; the material is never undefined.
C15_MaterialResolves ==
    \A g \in DOMAIN objBufferInfo :
        objBufferInfo[g].material =
            [kind |-> "entry",
             name |-> IF geometries[g].material \in DOMAIN materials
                      THEN geometries[g].material ELSE "default"]

(* ---------------------- claims on the materials table --------------------- *)

\* C16: after parseObj(text, textures), every texture-map field of every
\* material of the table holds a texture handle: the handle supplied under
\* the filename the MTL names when there is one, otherwise the default
\* material's handle for that field; the parse does not fail.
C16_MapsHoldTextures ==
    [][lastLine'.keyword = "eof"
       => /\ objThrown' = NoThrow
          /\ \A n \in DOMAIN materials' : \A key \in MapKeys :
                /\ materials'[n][key].kind = "texture"
                /\ materials'[n][key] =
                      IF /\ materials[n][key].kind = "file"
                         /\ materials[n][key].id \in textures'
                      THEN Texture(materials[n][key].id)
                      ELSE materials'["default"][key]
      ]_vars

(* ------------------------- claims on the Mesh -------------------------- *)

\* the coordinates on one axis over the position arrays of all Geometries
AxisCoordinates(axis) ==
    UNION {AxisValues(geometries[g].data[1], axis) : g \in DOMAIN geometries}

\* C17: the Mesh returned by parseObj has, on each axis, position =
\* -(min + max)/2, min and max being the smallest and largest coordinate on
\* that axis over the position arrays of all its Geometries (positions are
\* kept doubled: -(min + max)).
C17_Centered ==
    mesh.state = "mesh"
    => \A axis \in 1..3 :
          \E lo \in AxisCoordinates(axis), hi \in AxisCoordinates(axis) :
              /\ \A x \in AxisCoordinates(axis) : lo <= x /\ x <= hi
              /\ mesh.position[axis] = 0 - (lo + hi)

\* a Mesh of two Geometries with different extents: the first holds the
\* sentinel record (0, 0, 0), the second reaches (30, 31, 32)
C17_Witness ==
    /\ mesh.state = "mesh"
    /\ Len(geometries) = 2
    /\ GetExtents(geometries[1].data[1]).min = <<0, 0, 0>>
    /\ GetExtents(geometries[2].data[1]).min = <<10, 11, 12>>
    /\ GetExtents(geometries[2].data[1]).max = <<30, 31, 32>>
    /\ mesh.position = <<-30, -31, -32>>

(* --------------------- claims on grouping into Geometries ----------------- *)

\* all Geometries carry the names default, and there is at most one
SingleDefaultGeometry ==
    /\ Len(geometries) <= 1
    /\ \A g \in DOMAIN geometries :
          /\ geometries[g].material = "default"
          /\ geometries[g].object = "default"

\* three v lines followed by f 1 2 3 have been read and nothing else
ThreeVerticesOneFace ==
    /\ objMaterial = "default" /\ objObject = "default"
    /\ materialLibs = <<>>
    /\ Len(objPositions) = 4
    /\ lastLine = Line("f", "", [n |-> 3, form |-> "p", neg |-> FALSE])
    /\ TotalTriangles(geometries) = 1

\* C18, as stated: faces read before any usemtl or o line are collected in
\* a single Geometry whose material and object name are both default.
C18_Original ==
    (objMaterial = "default" /\ objObject = "default")
    => SingleDefaultGeometry

\* C18, amended: faces read before any usemtl, o or mtllib line are
\* collected in a single Geometry whose material and object name are both
\* default; three v lines followed by f 1 2 3 yield exactly one Geometry,
\* of material default, whose position array is the three v entries in
\* order.
C18_SingleGeometry ==
    /\ (objMaterial = "default" /\ objObject = "default"
                                /\ materialLibs = <<>>)
       => SingleDefaultGeometry
    /\ ThreeVerticesOneFace
       => /\ Len(geometries) = 1
          /\ geometries[1].material = "default"
          /\ geometries[1].data[1] =
                objPositions[2] \o objPositions[3] \o objPositions[4]

\* three v lines and f 1 2 3, then a second f 1 2 3: one Geometry of the
\* names default holds both triangles
C18_Witness ==
    /\ objMaterial = "default" /\ objObject = "default"
    /\ materialLibs = <<>>
    /\ Len(objPositions) = 4
    /\ Len(geometries) = 1
    /\ geometries[1].material = "default"
    /\ geometries[1].data[1] =
          <<10, 11, 12, 20, 21, 22, 30, 31, 32,
            10, 11, 12, 20, 21, 22, 30, 31, 32>>

(* ------------------------- claims on the cameras ------------------------ *)

\* the last call read the view-projection matrix of a camera
MatrixRead ==
    lastCall.op \in {"viewProjectionMatrix", "getWorldViewProjectionMatrix"}

\* whether setPerspective has been called on the camera the last call
\* addressed
LastCallCamera == cameraArray[lastCall.a + 1][lastCall.b + 1]

\* C19: for every camera, the cameras freshly created by initCameras
\* included, reading viewProjectionMatrix or calling
\* getWorldViewProjectionMatrix before setPerspective has been called on
\* that camera raises InvalidCameraStateException, and once setPerspective
\* has been called on it neither raises that error again.
C19_ProjectionRequired ==
    [][/\ MatrixRead'
          => /\ ~LastCallCamera'.projection
                   => thrown' = InvalidCameraStateException
             /\ LastCallCamera'.projection => thrown' = NoThrow
       /\ (lastCall'.op = "initCameras" /\ thrown' = NoThrow)
          => \A r \in DOMAIN cameraArray' : \A c \in DOMAIN cameraArray'[r] :
                ~cameraArray'[r][c].projection
       /\ lastCall'.op = "setPerspective" => LastCallCamera'.projection
       /\ lastCall'.op # "initCameras"
          => /\ DOMAIN cameraArray' = DOMAIN cameraArray
             /\ \A r \in DOMAIN cameraArray : \A c \in DOMAIN cameraArray[r] :
                   cameraArray[r][c].projection
                      => cameraArray'[r][c].projection
      ]_vars

\* on a grid of two columns setPerspective has been called on camera
\* (0, 0) only, and a read on camera (0, 1) has raised
C19_Witness ==
    /\ Len(cameraArray) >= 1
    /\ Len(cameraArray[1]) = 2
    /\ cameraArray[1][1].projection
    /\ ~cameraArray[1][2].projection
    /\ lastCall = Call("getWorldViewProjectionMatrix", NoName, 0, 1)
    /\ thrown = InvalidCameraStateException

(* ------------------- claims on iterateCamerasAsync ---------------------- *)

\* the k-th camera in row-major order of a grid with h columns
RowMajor(k, h) == <<(k - 1) \div h, (k - 1) % h>>

\* C20: iterateCamerasAsync visits the cameras in row-major order and does
\* not invoke the callback for the next camera until the promise returned
\* by the callback for the previous camera has resolved; at no time are
\* two callback invocations in progress, and the returned promise resolves
\* only after all rows x cols visits have completed (stated of every step
\* of an iteration).
C20_SequentialVisits ==
    [][iteration' # iteration
       => /\ iteration'.inProgress <= 1
          /\ \A k \in 1..Len(iteration'.visited) :
                iteration'.visited[k] = RowMajor(k, horizontalCamerasCount)
          /\ iteration'.visited # iteration.visited
             => /\ iteration.inProgress = 0
                /\ iteration'.inProgress = 1
          /\ iteration'.pc = "resolved"
             => /\ iteration'.inProgress = 0
                /\ Len(iteration'.visited) =
                      verticalCamerasCount * horizontalCamerasCount
      ]_vars

\* the iteration over a grid of 2 x 2 cameras has resolved after its four
\* visits
C20_Witness ==
    /\ iteration.pc = "resolved"
    /\ iteration.inProgress = 0
    /\ iteration.visited = <<<<0, 0>>, <<0, 1>>, <<1, 0>>, <<1, 1>>>>

(* ------------------------ claims on iterateCameras ---------------------- *)

\* C21: iterateCameras invokes the callback exactly once per grid cell,
\* rows x cols times in total, in row-major order, passing the camera of
\* that cell, its row, its column and an ordinal equal to
\* row * cols + col + 1.
C21_RowMajorOnce ==
    (lastCall.op = "iterateCameras" /\ thrown = NoThrow)
    => /\ Len(calls) = Rows * Cols
       /\ \A k \in 1..Len(calls) :
             /\ calls[k].row = (k - 1) \div Cols
             /\ calls[k].column = (k - 1) % Cols
             /\ calls[k].camera = <<calls[k].row, calls[k].column>>
             /\ calls[k].iterator = calls[k].row * Cols + calls[k].column + 1
       /\ \A r \in 0..(Rows - 1), c \in 0..(Cols - 1) :
             Cardinality({k \in 1..Len(calls) :
                             calls[k].camera = <<r, c>>}) = 1

\* iterateCameras has run over a grid of 2 rows and 3 columns: six
\* invocations, the fourth for row 1, column 0 with ordinal 4
C21_Witness ==
    /\ lastCall.op = "iterateCameras"
    /\ thrown = NoThrow
    /\ Rows = 2 /\ Cols = 3
    /\ Len(calls) = 6
    /\ calls[4] = [camera |-> <<1, 0>>, row |-> 1, column |-> 0,
                   iterator |-> 4]

\* the cell of the grid at (row, column), both counted from 0
Cell(row, column) == cameraArray[row + 1][column + 1]

\* a re-initialisation of the grid has just returned normally
GridRebuilt ==
    /\ lastCall.op \in {"initCameras", "spaceChange"}
    /\ thrown = NoThrow

\* where initCameras places the camera of (row, column)
GridPosition(row, column) ==
    <<defaultPosition[1] + column * horizontalCameraSpace,
      defaultPosition[2] - row * verticalCameraSpace,
      defaultPosition[3]>>

\* C22 as stated: after initCameras every camera is at anchor + column *
\* horizontalCameraSpace, anchor - row * verticalCameraSpace, anchorZ, and
\* is a fresh camera that is not selected.
C22_Original ==
    GridRebuilt
    => \A r \in 0..(Rows - 1), c \in 0..(Cols - 1) :
           /\ Cell(r, c).position = GridPosition(r, c)
           /\ ~Cell(r, c).projection
           /\ ~Cell(r, c).selected

\* C22: after initCameras every camera is at anchor + column *
\* horizontalCameraSpace, anchor - row * verticalCameraSpace, anchorZ, and
\* is a fresh camera (it has no projection yet); every camera is unselected
\* except the single one initCameras selects before it returns.
C22_GridPositions ==
    GridRebuilt
    => /\ \A r \in 0..(Rows - 1), c \in 0..(Cols - 1) :
              /\ Cell(r, c).position = GridPosition(r, c)
              /\ ~Cell(r, c).projection
       /\ Cardinality({rc \in (0..(Rows - 1)) \X (0..(Cols - 1)) :
                          Cell(rc[1], rc[2]).selected}) = 1

\* a 2 x 2 grid rebuilt by the vertical spacing input set to 1 after the
\* horizontal spacing was clamped to 0.5
C22_Witness ==
    /\ lastCall = Call("spaceChange", "verticalCameraSpace", 10, 0)
    /\ thrown = NoThrow
    /\ horizontalCameraSpace = minCameraSpace
    /\ Rows = 2 /\ Cols = 2
    /\ Cell(1, 1).position = <<-15, 10, 150>>
    /\ Cell(1, 0).selected

C25_InitResets ==
    [][upload'.parse # upload.parse
       => /\ objThrown' = NoThrow
          /\ objPositions' = << <<0, 0, 0>> >>
          /\ objTexcoords' = << <<0, 0>> >>
          /\ objNormals' = << <<0, 0, 0>> >>
          /\ objColors' = << <<0, 0, 0>> >>
          /\ geometries' = <<>>
          /\ geometry' = 0
          /\ materialLibs' = <<>>
          /\ objMaterial' = "default"
          /\ objObject' = "default"
          /\ materialObject' = NoName
          /\ materials' = [name \in {"default"} |-> DefaultMaterial]]_vars

\* an upload of three v lines and f 1 2 3 whose parse completed with no
\* Geometry at all, after an upload that raised at its first face line
C25_LostFaces ==
    /\ upload.parse = 2
    /\ geometry = LeftOver
    /\ Len(objPositions) = 4
    /\ lastLine.keyword = "eof"
    /\ objThrown = NoThrow
    /\ geometries = <<>>
    /\ mesh.state = "NaN"

\* init() raised in an upload that followed a parse with the single face
\* line f 1 2
C25_InitRaised ==
    /\ upload.parse = 2
    /\ objThrown = TypeError
    /\ lastLine.keyword = "eof"
    /\ geometry = 1
    /\ geometries[1].data = EmptyData
    /\ Len(objPositions) = 1

\* the triangles of the last call of #generateTangents, counted from 0
TangentTriangles == 0..(Len(tangentCall.position) \div 9 - 1)

\* the UV determinant of triangle i of the last call
TangentDeterminant(i) ==
    Determinant(
        TriangleEdges(tangentCall.position, tangentCall.texcoord, i).duv12,
        TriangleEdges(tangentCall.position, tangentCall.texcoord, i).duv13)

\* the three tangents emitted for triangle i
EmittedTangents(i) == SubSeq(tangentCall.tangents, 9 * i + 1, 9 * i + 9)

\* C24 as stated: a triangle of zero UV determinant gets the tangent
\* (1, 0, 0) three times, no entry of the tangent array is NaN, and the
\* array has 3 entries per vertex of the position array.
C24_Original ==
    /\ \A i \in TangentTriangles :
           TangentDeterminant(i) = 0
           => EmittedTangents(i) = ConstantTangent \o ConstantTangent
                                   \o ConstantTangent
    /\ \A k \in 1..Len(tangentCall.tangents) :
           tangentCall.tangents[k] # NaNFloat
    /\ Len(tangentCall.tangents) = Len(tangentCall.position)

\* C24: a triangle whose UV determinant is zero (or NaN, as without
\* texcoords) gets the tangent (1, 0, 0) three times; a triangle whose
\* position coordinates are all numbers gets no NaN entry; and the tangent
\* array has 3 entries per vertex of the position array.
C24_DegenerateFallback ==
    /\ \A i \in TangentTriangles :
           /\ ~InverseIsFinite(TangentDeterminant(i))
              => EmittedTangents(i) = ConstantTangent \o ConstantTangent
                                      \o ConstantTangent
           /\ (\A k \in (9 * i + 1)..(9 * i + 9) :
                   tangentCall.position[k] # NaN)
              => \A k \in (9 * i + 1)..(9 * i + 9) :
                     tangentCall.tangents[k] # NaNFloat
    /\ Len(tangentCall.tangents) = Len(tangentCall.position)

\* two triangles, the first with texcoords on a line and the second with
\* proper texcoords: the constant tangent, then the normalized one
C24_Witness ==
    /\ tangentCall.position = <<0, 0, 0, 1, 0, 0, 0, 1, 0,
                                0, 0, 0, 2, 0, 0, 0, 0, 3>>
    /\ tangentCall.texcoord = <<0, 0, 1, 1, 2, 2, 0, 0, 1, 0, 0, 1>>
    /\ TangentDeterminant(0) = 0
    /\ EmittedTangents(0) = ConstantTangent \o ConstantTangent
                            \o ConstantTangent
    /\ EmittedTangents(1)[1] = <<2, 4>>

\* the cells of the grid, rows and columns counted from 0
GridCells == (0..(Rows - 1)) \X (0..(Cols - 1))

\* the cameras whose color is the pixel
CamerasOfColor(data) ==
    {cell \in GridCells : ArrayEquals(data, Cell(cell[1], cell[2]).color)}

\* C26: when handlePicking returns, a camera whose color was the pixel read
\* is the selected camera and the selection box names it, and with a pixel
\* that was no camera's color the grid is as it was before.
C26_PickedCameraSelected ==
    [][(lastCall'.op = "handlePicking" /\ thrown' = NoThrow)
       => /\ \A cell \in CamerasOfColor(picking'.data) :
                 /\ SelectedCamera(cameraArray', horizontalCamerasCount',
                                   verticalCamerasCount').cell = cell
                 /\ picking'.value = cell
          /\ CamerasOfColor(picking'.data) = {}
             => /\ cameraArray' = cameraArray
                /\ picking'.value = picking.value]_vars

\* a click on the second of four cameras while the first was selected: it
\* is selected, and the two cameras visited after it were recolored
C26_Witness ==
    /\ lastCall.op = "handlePicking"
    /\ thrown = NoThrow
    /\ Rows = 2 /\ Cols = 2
    /\ picking.data = <<0, 0, 1, 255>>
    /\ picking.value = <<0, 1>>
    /\ Cell(0, 1).selected
    /\ Cell(0, 0).color = <<0, 1, 0, 255>>
    /\ Cell(1, 0).color = <<1, 1, 0, 255>>

\* C27: after the count and spacing change events of the renderer, the
\* stored horizontalCamerasCount and verticalCamerasCount are the numbers of
\* columns and rows of the camera array.
C27_CountsMatchArray ==
    lastCall.op \in {"countChange", "spaceChange"}
    => /\ horizontalCamerasCount = Cols
       /\ verticalCamerasCount = Rows

(* ------------------ claims on the names of the Geometries ----------------- *)

\* position floats held by Geometry g of the list geoms (none when the
\* list has no such Geometry)
PositionFloats(geoms, g) ==
    IF g \in DOMAIN geoms THEN Len(geoms[g].data[1]) ELSE 0

\* a face line has been read by this step, without a raise
FaceLineRead ==
    /\ lastLine'.keyword = "f"
    /\ geometries' # geometries
    /\ objThrown' = NoThrow

\* C28: every triangle emitted for a face line is stored in a Geometry
\* whose material and object name are the names in effect when the face
\* line was read, face lines with fewer than 3 vertices included.
C28_TrianglesUnderNamesInEffect ==
    [][FaceLineRead
       => \A g \in DOMAIN geometries' :
             PositionFloats(geometries', g) > PositionFloats(geometries, g)
             => /\ geometries'[g].material = objMaterial
                /\ geometries'[g].object = objObject]_vars

\* the keywords after which the next face starts a new Geometry
GroupingKeywords == {"usemtl", "mtllib", "o"}

\* the Geometry list's last Geometry holds position data
LastHoldsPositions ==
    geometries # <<>> /\ PositionFloats(geometries, Len(geometries)) > 0

\* C29: a usemtl, mtllib or o line creates no Geometry itself; the face
\* line after it appends a new Geometry at the end of the list when the
\* current Geometry holds position data, and reuses the current Geometry,
\* creating none, when it holds no position data yet.
C29_NewOrReused ==
    [][/\ lastLine'.keyword \in GroupingKeywords => geometries' = geometries
       /\ (lastLine.keyword \in GroupingKeywords /\ lastLine'.keyword = "f"
           /\ geometries # <<>>)
          => IF LastHoldsPositions
             THEN /\ Len(geometries') = Len(geometries) + 1
                  /\ SubSeq(geometries', 1, Len(geometries)) = geometries
                  /\ geometry' = Len(geometries')
             ELSE /\ Len(geometries') = Len(geometries)
                  /\ geometry' = Len(geometries)
                  /\ \A g \in 1..(Len(geometries) - 1) :
                        geometries'[g] = geometries[g]]_vars

\* both cases have happened: a second Geometry was appended after a first
\* one that holds a triangle, and it was reused by a face read after a
\* later usemtl line (it holds a triangle and carries the earlier name)
C29_Witness ==
    /\ objThrown = NoThrow
    /\ lastLine.keyword = "f"
    /\ Len(geometries) = 2
    /\ PositionFloats(geometries, 1) = 9
    /\ PositionFloats(geometries, 2) = 9
    /\ geometries[2].material = "a"
    /\ objMaterial = "b"

\* the (object, material) pair a Geometry carries
NamePair(geom) == <<geom.object, geom.material>>

\* C30, as stated: no two Geometries of a parse carry the same (object,
\* material) pair.
C30_Original ==
    \A g, h \in DOMAIN geometries :
       g # h => NamePair(geometries[g]) # NamePair(geometries[h])

\* C30, amended: the Geometry list holds one Geometry per run of face
\* lines. A Geometry is appended only by a face line, one at a time and
\* only behind a Geometry that holds position data; it takes the object
\* and material names in effect at that face line and keeps them; and a
\* face line read while no Geometry is current always appends one, also
\* when a Geometry of the list already carries the same pair.
C30_OnePerRun ==
    [][/\ Len(geometries') > Len(geometries)
          => /\ lastLine'.keyword = "f"
             /\ Len(geometries') = Len(geometries) + 1
             /\ NamePair(geometries'[Len(geometries')])
                   = <<objObject, objMaterial>>
             /\ geometries # <<>> => LastHoldsPositions
       /\ \A g \in DOMAIN geometries :
             /\ g \in DOMAIN geometries'
             /\ NamePair(geometries'[g]) = NamePair(geometries[g])
       /\ (lastLine'.keyword = "f" /\ geometry = 0)
          => Len(geometries') = Len(geometries) + 1]_vars

\* usemtl a, a face, usemtl a again, a face: two Geometries of one
\* triangle each carry the pair (default, a)
C30_Witness ==
    /\ objThrown = NoThrow
    /\ Len(geometries) = 2
    /\ NamePair(geometries[1]) = <<"default", "a">>
    /\ NamePair(geometries[2]) = <<"default", "a">>
    /\ PositionFloats(geometries, 1) = 9
    /\ PositionFloats(geometries, 2) = 9
    /\ materialLibs = <<>>

(* --------------------- claims on per-vertex colors ------------------------ *)

\* color floats and position floats a step adds to the Geometries
ColorFloats(geoms, g) == IF g \in DOMAIN geoms THEN Len(geoms[g].data[4]) ELSE 0

ColorFloatsAdded ==
    {ColorFloats(geometries', g) - ColorFloats(geometries, g) :
        g \in DOMAIN geometries'} \ {0}

PositionFloatsAdded ==
    {PositionFloats(geometries', g) - PositionFloats(geometries, g) :
        g \in DOMAIN geometries'} \ {0}

\* v records with color data read so far (the pool starts with one entry)
ColoredRecords == Len(objColors) - 1

ExportFinishes(k) ==
    /\ k \in DOMAIN exports
    /\ exports[k].pc = "generating"
    /\ exports'[k].pc = "finished"

\* C32: after exportLightField has finished, the disabled flag of every
\* input and select element is what it was before the export started, for
\* every set of elements disabled before the export, the empty set included.
C32_DisabledRestored ==
    [][\A k \in 1..MaxExports :
          ExportFinishes(k)
          => \A c \in inputElements :
                disabled'[c] = (c \in exports[k].disabledInputs)]_vars

\* C33: while an export is in progress (from the call of exportLightField
\* until the archive has been generated) no render() animation frame is
\* pending, and at any time at most one render() callback is pending
C33_NoFrameDuringExport ==
    /\ loop.pending <= 1
    /\ ExportInProgress => loop.pending = 0

\* C33, where every control of the page that starts an export is an input
\* or select element (so that toggleInputs(true) disables it)
C33_WithExportControlDisabled ==
    "exportLf" \in inputElements => C33_NoFrameDuringExport

\* the archive of an export holds, for every k below n, the file IMG_k with
\* the capture of the camera at row-major position k of a grid of h columns
RowMajorArchive(files, n, h) ==
    /\ Len(files) = n
    /\ \A i \in 1..Len(files) :
          /\ files[i].name = i - 1
          /\ files[i].camera = <<(i - 1) \div h, (i - 1) % h>>

\* export k goes on from iterateCamerasAsync to zipper.generateAsync
GenerationStarts(k) ==
    /\ k \in DOMAIN exports
    /\ exports[k].pc = "capturing"
    /\ exports'[k].pc = "generating"

\* C34: when exportLightField starts the archive generation the archive
\* holds exactly rows x cols images, IMG_0 to IMG_(rows*cols-1), and IMG_k
\* is the capture of the camera at row-major position k
C34_RowMajorImages ==
    [][\A k \in 1..MaxExports :
          GenerationStarts(k)
          => RowMajorArchive(exports'[k].files,
                             verticalCamerasCount * horizontalCamerasCount,
                             horizontalCamerasCount)]_vars

\* C34, second part: while an export renders a camera the captures of all
\* cameras rendered before it are in the archive, and the generation is
\* started with the captures of all rendered cameras
C34_AddedBeforeNextRender ==
    \A k \in DOMAIN exports :
        /\ exports[k].pc = "capturing"
           => Len(exports[k].files) = Len(exports[k].it.visited) - 1
        /\ exports[k].pc \in {"generating", "finished"}
           => Len(exports[k].files) = Len(exports[k].it.visited)

\* C34 for an export that no other export overlaps
C34_AloneRowMajorImages ==
    [][\A k \in 1..MaxExports :
          (GenerationStarts(k) /\ Len(exports) = 1)
          => RowMajorArchive(exports'[k].files,
                             verticalCamerasCount * horizontalCamerasCount,
                             horizontalCamerasCount)]_vars

\* C34, where every control of the page that starts an export is an input
\* or select element
C34_WithExportControlDisabled ==
    [][\A k \in 1..MaxExports :
          (GenerationStarts(k) /\ "exportLf" \in inputElements)
          => RowMajorArchive(exports'[k].files,
                             verticalCamerasCount * horizontalCamerasCount,
                             horizontalCamerasCount)]_vars

\* the mouseup of the latest mousedown has arrived and no mouse movement
\* came between the two
ReleasedWithoutMovement == mouse.down > 0 /\ mouse.up /\ ~mouse.moved

\* C35: a mousedown on the canvas that is not followed by a mouse movement
\* leads to handlePicking being run with its coordinates, however soon the
\* mouseup arrives: once the mouseup is there the coordinates are erased, so
\* handlePicking has run with them by then
C35_ClickIsPicked ==
    ReleasedWithoutMovement => mouse.down \in mouse.handled

\* C35, the later frames: a click that was released before handlePicking
\* ran with its coordinates is not picked by any later frame either
C35_NeverPickedLater ==
    [][(ReleasedWithoutMovement /\ mouse.down \notin mouse.handled)
       => mouse.down \notin mouse'.handled]_vars

\* C36: InvalidCameraStateException is raised neither by render() nor by
\* exportLightField: every camera they read the view-projection matrix of
\* has had setPerspective called before, also a grid camera that initCameras
\* has just made or that picking or the selection box has just selected
C36_PerspectiveBeforeMatrix ==
    /\ thrown # InvalidCameraStateException
    /\ \A k \in DOMAIN exports :
          exports[k].error # InvalidCameraStateException

\* a frame has picked with the mouse and rendered the selected camera of a
\* grid of two cameras that the count inputs made, and an export of two
\* cameras has finished
C36_Witness ==
    /\ lastCall.op = "render"
    /\ thrown = NoThrow
    /\ mouse.handled # {}
    /\ horizontalCamerasCount * verticalCamerasCount = 2
    /\ \E k \in DOMAIN exports :
          exports[k].pc = "finished" /\ Len(exports[k].files) = 2
    /\ \E sc \in {SelectedCamera(cameraArray, horizontalCamerasCount,
                                 verticalCamerasCount)} :
          /\ sc.cell # <<>>
          /\ cameraArray[sc.cell[1] + 1][sc.cell[2] + 1].projection

\* the entries of the table other than `name` are what they were
OtherMaterialsUnchanged(name) ==
    \A n \in DOMAIN materials :
        n # name => n \in DOMAIN materials' /\ materials'[n] = materials[n]

\* the step reads a newmtl line: its name is a table entry that copies the
\* default material, and the default material and all others are unchanged
NewmtlCopiesDefault ==
    lastLine'.keyword = "newmtl"
    => /\ lastLine'.kind \in DOMAIN materials'
       /\ materials'[lastLine'.kind] = materials["default"]
       /\ materials'["default"] = materials["default"]
       /\ OtherMaterialsUnchanged(lastLine'.kind)

\* the step reads a material directive: of the material declared last only
\* the directive's field changes, the default material and all others are
\* unchanged, and before any newmtl the table is unchanged
DirectiveWritesOneField ==
    lastLine'.keyword \in {"map_Kd", "Ns"}
    => /\ DOMAIN materials' = DOMAIN materials
       /\ materials'["default"] = materials["default"]
       /\ IF materialObject = NoName THEN materials' = materials
          ELSE /\ OtherMaterialsUnchanged(materialObject)
               /\ \A key \in DOMAIN materials[materialObject] :
                     (key # (IF lastLine'.keyword = "Ns" THEN "u_shininess"
                             ELSE MapKey(lastLine'.keyword)))
                     => materials'[materialObject][key]
                            = materials[materialObject][key]

\* C37: after a newmtl X line material X is a copy of the default material;
\* every following material directive changes only its field of the
\* material declared last, the default material and every other material
\* are left unchanged; directives before any newmtl change no material
C37_MaterialUnderConstruction ==
    [][NewmtlCopiesDefault /\ DirectiveWritesOneField]_vars

\* C37 without the default material: the entries a step does not name are
\* unchanged, also when the name is default
C37_OtherEntriesUnchanged ==
    [][/\ lastLine'.keyword = "newmtl"
          => OtherMaterialsUnchanged(lastLine'.kind)
       /\ lastLine'.keyword \in {"map_Kd", "Ns"}
          => IF materialObject = NoName THEN materials' = materials
             ELSE OtherMaterialsUnchanged(materialObject)]_vars

\* C37, the default material alone: no material line changes it
C37_DefaultUnchanged ==
    [][materials'["default"] = materials["default"]]_vars

\* C37, the numbers of a copy: a newmtl line gives its material the numbers
\* the default material has
C37_CopiesNumbers ==
    [][lastLine'.keyword = "newmtl"
       => \A key \in ScalarKeys :
             materials'[lastLine'.kind][key] = materials["default"][key]]_vars

\* a batch with more than one OBJ file, more than one MTL file or no OBJ
\* file
RefusedBatch(files) ==
    \/ CountFiles(files, "obj", Len(files)) > 1
    \/ CountFiles(files, "mtl", Len(files)) > 1
    \/ CountFiles(files, "obj", Len(files)) = 0

\* the step is a handleFileUpload call: it records its files, or tells the
\* user something else than the call before
BatchHandled == upload'.batch # upload.batch \/ upload'.alert # upload.alert

\* C38: an upload batch that contains more than one OBJ file, more than one
\* MTL file or no OBJ file leaves the mesh, its buffer info and the parser
\* state unchanged: the parser is not re-initialised and no parse is run
C38_RefusedBatchChangesNothing ==
    [][(BatchHandled /\ RefusedBatch(upload'.batch))
       => /\ UNCHANGED <<objVars, objBufferInfo>>
          /\ upload'.parse = upload.parse
          /\ upload'.mesh = upload.mesh
          /\ upload'.buffer = upload.buffer]_vars

\* the mesh of an upload is displayed and a batch with two OBJ files has
\* been refused after it
C38_Witness ==
    /\ upload.mesh = 1
    /\ upload.buffer = 1
    /\ upload.frame = <<1, 1>>
    /\ upload.alert # NoAlert
    /\ CountFiles(upload.batch, "obj", Len(upload.batch)) = 2

\* the step is the end of parseObj: the post-pass over #geometries
ParseEnds == lastLine.keyword # "eof" /\ lastLine'.keyword = "eof"

====
